---- MODULE Spec2Model ----
(***************************************************************************)
(* Video selection and download of SwitchTube-Downloader.                  *)
(*                                                                         *)
(* State machines over one set of variables:                               *)
(*   Spec      the interactive checkbox selector (stdin is a terminal), in *)
(*             the three implementations the repository carries:           *)
(*               "input"   internal/helper/ui/input/interactive.go         *)
(*               "part006" unnamed/part_006 (package input, later version) *)
(*               "ui"      internal/helper/ui/interactive.go + selector.go *)
(*   TextSpec  the text selection of ui.SelectVideos (stdin is not a       *)
(*             terminal): one line is read and handed to parseSelection.   *)
(*   PipedSpec     SelectVideos of every implementation, on a terminal or  *)
(*                 with a line waiting on a piped stdin.                   *)
(*   OverwriteSpec one call of dir.OverwriteVideoIfExists.                 *)
(*   DownloadSpec  download.Download: the video attempt, the channel, the  *)
(*                 selector on a terminal, and the downloads that follow.  *)
(*   KeySpec       one call of ReadKey on what a read of stdin delivered.  *)
(*   MediaSpec     the head of download.Download: extractIDAndType on      *)
(*                 config.Media and the return on its error.               *)
(*   ParallelSpec  downloadVideosParallel and its goroutines.              *)
(*   WriterSpec    the progressWriter inside the io.Copy of a download.    *)
(*   TokenSpec     Set and Delete of the token Manager on the keyring.     *)
(*                                                                         *)
(* Go strings are sequences of one-character strings, byte buffers are     *)
(* sequences of byte values, a Go error is the set of sentinel errors that *)
(* errors.Is finds in its chain (the empty set is the nil error), and a    *)
(* returned []int is a record that keeps nil and the empty slice apart.    *)
(* terminal.State.Restore is taken to succeed whenever it is called: its   *)
(* error is discarded by the callers.                                      *)
(***************************************************************************)
EXTENDS Integers, Sequences, FiniteSets, TLC

\* ---------------------------------------------------------------- bounds
\* largest number of videos offered to the interactive selector
MaxVideos == 3
\* largest number of videos offered to the text selection
MaxItems == 2
\* longest line typed at the "Selection: " prompt (without the newline)
MaxLen == 5
\* longest line waiting on a piped stdin (without the newline)
MaxPiped == 2
\* longest answer typed at a (y/N) prompt (without the newline)
MaxAnswer == 3
\* longest config.Media, in pieces
MaxMedia == 5
\* most videos handed to downloadVideosParallel
MaxParallel == 3
\* most bytes io.Copy hands to one Write
MaxChunk == 2
\* most bytes a download writes
MaxWritten == 4

VARIABLES
    impl,          \* which implementation of the selector runs
    all,           \* the --all flag handed to SelectVideos
    videos,        \* len(videos) handed to SelectVideos
    isTerminal,    \* whether stdin is a terminal
    pc,            \* "call", "loop" (blocked in ReadKey), "returned", "exited"
    state,         \* the selectionState of the session
    event,         \* the key event runEventLoop read last
    rawMode,       \* the terminal is in raw mode
    cursorHidden,  \* the cursor is hidden
    drawn,         \* the list or table has been written to the terminal
    line,          \* the line read at the "Selection: " prompt
    stdin,         \* what waits on a piped stdin, <<>> when drawn at the read
    ow,            \* a call of dir.OverwriteVideoIfExists and what it did
    dl,            \* a call of download.Download: its input, position, effects
    key,           \* a call of ReadKey: what the read delivered, what it returned
    media,         \* config.Media on its way through the head of Download
    par,           \* a call of downloadVideosParallel and its goroutines
    pw,            \* a progressWriter inside the io.Copy of the progress bar
    tok,           \* the keyring and the last call of the token Manager
    result         \* what SelectVideos returned

\* the state of the functions that are called on their own
units == <<key, media, par, pw, tok>>

vars == <<impl, all, videos, isTerminal, pc, state, event, rawMode,
          cursorHidden, drawn, line, stdin, ow, dl, result, units>>

\* ---------------------------------------------------------------- errors
NilErr == {}

Is(err, target) == target \in err

\* fmt.Errorf("%w: %w", sentinel, cause)
Wrap(sentinel, cause) == {sentinel} \cup cause

\* the error of a failed read(2) / ioctl(2)
OsErr == {"os"}

\* ------------------------------------------------------------ []int values
NilSlice == [nil |-> TRUE, elems |-> <<>>]

Slice(s) == [nil |-> FALSE, elems |-> s]

NoResult == [indices |-> NilSlice, err |-> NilErr]

\* indices := make([]int, len(videos)); indices[i] = i
AllIndices(n) == [i \in 1..n |-> i - 1]

\* ------------------------------------------------------------ Go strings
IsSpace(c) == c \in {" ", "\t", "\n"}

RECURSIVE TrimLeft(_)
TrimLeft(s) ==
    IF s # <<>> /\ IsSpace(Head(s)) THEN TrimLeft(Tail(s)) ELSE s

RECURSIVE TrimRight(_)
TrimRight(s) ==
    IF s # <<>> /\ IsSpace(s[Len(s)])
    THEN TrimRight(SubSeq(s, 1, Len(s) - 1))
    ELSE s

TrimSpace(s) == TrimRight(TrimLeft(s))

Contains(s, c) == \E i \in 1..Len(s) : s[i] = c

\* strings.Split(s, sep) for a one-character separator: the pieces between
\* the separators, empty pieces included
RECURSIVE SplitFrom(_, _, _)
SplitFrom(s, sep, cur) ==
    IF s = <<>> THEN <<cur>>
    ELSE IF Head(s) = sep THEN <<cur>> \o SplitFrom(Tail(s), sep, <<>>)
    ELSE SplitFrom(Tail(s), sep, Append(cur, Head(s)))

Split(s, sep) == SplitFrom(s, sep, <<>>)

\* a separator function that knows the comma only
IsSeparator_CommaOnly(r) == r = ","

\* the separator function parseSelection hands to strings.FieldsFunc
IsSeparator(r) == r = "," \/ r = " "

\* strings.FieldsFunc(s, IsSeparator): the maximal runs of non-separators
RECURSIVE FieldsFrom(_, _)
FieldsFrom(s, cur) ==
    IF s = <<>> THEN (IF cur = <<>> THEN <<>> ELSE <<cur>>)
    ELSE IF IsSeparator(Head(s))
         THEN (IF cur = <<>> THEN <<>> ELSE <<cur>>) \o FieldsFrom(Tail(s), <<>>)
         ELSE FieldsFrom(Tail(s), Append(cur, Head(s)))

FieldsFunc(s) == FieldsFrom(s, <<>>)

Digits == {"0", "1", "2", "3", "4", "5", "6", "7", "8", "9"}

DigitVal(c) ==
    CASE c = "0" -> 0 [] c = "1" -> 1 [] c = "2" -> 2 [] c = "3" -> 3
      [] c = "4" -> 4 [] c = "5" -> 5 [] c = "6" -> 6 [] c = "7" -> 7
      [] c = "8" -> 8 [] c = "9" -> 9

RECURSIVE DecVal(_, _)
DecVal(s, acc) ==
    IF s = <<>> THEN acc ELSE DecVal(Tail(s), 10 * acc + DigitVal(Head(s)))

\* strconv.Atoi: an optional sign followed by at least one decimal digit.
\* Values beyond the int range (an error in Go) need more digits than any
\* line of the model has.
Atoi(s) ==
    LET signed == s # <<>> /\ Head(s) \in {"+", "-"}
        body   == IF signed THEN Tail(s) ELSE s
    IN IF body = <<>> \/ \E i \in 1..Len(body) : body[i] \notin Digits
       THEN [ok |-> FALSE, val |-> 0]
       ELSE [ok |-> TRUE,
             val |-> IF signed /\ Head(s) = "-"
                     THEN 0 - DecVal(body, 0) ELSE DecVal(body, 0)]

\* sort.Ints
RECURSIVE Insert(_, _)
Insert(x, s) ==
    IF s = <<>> THEN <<x>>
    ELSE IF x <= Head(s) THEN <<x>> \o s
    ELSE <<Head(s)>> \o Insert(x, Tail(s))

RECURSIVE SortInts(_)
SortInts(s) == IF s = <<>> THEN <<>> ELSE Insert(Head(s), SortInts(Tail(s)))

\* ------------------------------------------- text selection (package ui)
rangePartsCount == 2

\* for i := start; i <= end; i++ { if !seen[i-1] { append; seen[i-1] = true } }
RECURSIVE appendRange(_, _, _, _)
appendRange(i, end, indices, seen) ==
    IF i > end THEN [indices |-> indices, seen |-> seen, err |-> NilErr]
    ELSE IF (i - 1) \notin seen
         THEN appendRange(i + 1, end, Append(indices, i - 1), seen \cup {i - 1})
         ELSE appendRange(i + 1, end, indices, seen)

Failed(sentinel) == [indices |-> <<>>, seen |-> {}, err |-> {sentinel}]

\* handleRangeSelection that only asks for at least two parts
handleRangeSelection_AtLeastTwo(part, availableVideos, indices, seen) ==
    LET rangeParts == Split(part, "-")
    IN IF Len(rangeParts) < rangePartsCount THEN Failed("errInvalidRangeFormat")
       ELSE LET start == Atoi(TrimSpace(rangeParts[1]))
                end   == Atoi(TrimSpace(rangeParts[2]))
            IN IF ~start.ok THEN Failed("errInvalidStartNumber")
               ELSE IF ~end.ok THEN Failed("errInvalidEndNumber")
               ELSE IF start.val < 1 \/ end.val > availableVideos
                         \/ start.val > end.val
                    THEN Failed("errInvalidRange")
                    ELSE appendRange(start.val, end.val, indices, seen)

\* handleRangeSelection with the two endpoint errors exchanged
handleRangeSelection_SwappedErrors(part, availableVideos, indices, seen) ==
    LET rangeParts == Split(part, "-")
    IN IF Len(rangeParts) # rangePartsCount THEN Failed("errInvalidRangeFormat")
       ELSE LET start == Atoi(TrimSpace(rangeParts[1]))
                end   == Atoi(TrimSpace(rangeParts[2]))
            IN IF ~start.ok THEN Failed("errInvalidEndNumber")
               ELSE IF ~end.ok THEN Failed("errInvalidStartNumber")
               ELSE IF start.val < 1 \/ end.val > availableVideos
                         \/ start.val > end.val
                    THEN Failed("errInvalidRange")
                    ELSE appendRange(start.val, end.val, indices, seen)

\* handleRangeSelection that converts the end before the start
handleRangeSelection_EndFirst(part, availableVideos, indices, seen) ==
    LET rangeParts == Split(part, "-")
    IN IF Len(rangeParts) # rangePartsCount THEN Failed("errInvalidRangeFormat")
       ELSE LET start == Atoi(TrimSpace(rangeParts[1]))
                end   == Atoi(TrimSpace(rangeParts[2]))
            IN IF ~end.ok THEN Failed("errInvalidEndNumber")
               ELSE IF ~start.ok THEN Failed("errInvalidStartNumber")
               ELSE IF start.val < 1 \/ end.val > availableVideos
                         \/ start.val > end.val
                    THEN Failed("errInvalidRange")
                    ELSE appendRange(start.val, end.val, indices, seen)

handleRangeSelection(part, availableVideos, indices, seen) ==
    LET rangeParts == Split(part, "-")
    IN IF Len(rangeParts) # rangePartsCount THEN Failed("errInvalidRangeFormat")
       ELSE LET start == Atoi(TrimSpace(rangeParts[1]))
                end   == Atoi(TrimSpace(rangeParts[2]))
            IN IF ~start.ok THEN Failed("errInvalidStartNumber")
               ELSE IF ~end.ok THEN Failed("errInvalidEndNumber")
               ELSE IF start.val < 1 \/ end.val > availableVideos
                         \/ start.val > end.val
                    THEN Failed("errInvalidRange")
                    ELSE appendRange(start.val, end.val, indices, seen)

\* handleSingleSelection with num < 0 in place of num < 1
handleSingleSelection_ZeroOk(part, availableVideos, indices, seen) ==
    LET num == Atoi(part)
    IN IF ~num.ok THEN Failed("errInvalidNumber")
       ELSE IF num.val < 0 \/ num.val > availableVideos
            THEN Failed("errNumberOutOfRange")
            ELSE IF (num.val - 1) \notin seen
                 THEN [indices |-> Append(indices, num.val - 1),
                       seen |-> seen \cup {num.val - 1}, err |-> NilErr]
                 ELSE [indices |-> indices, seen |-> seen, err |-> NilErr]

handleSingleSelection(part, availableVideos, indices, seen) ==
    LET num == Atoi(part)
    IN IF ~num.ok THEN Failed("errInvalidNumber")
       ELSE IF num.val < 1 \/ num.val > availableVideos
            THEN Failed("errNumberOutOfRange")
            ELSE IF (num.val - 1) \notin seen
                 THEN [indices |-> Append(indices, num.val - 1),
                       seen |-> seen \cup {num.val - 1}, err |-> NilErr]
                 ELSE [indices |-> indices, seen |-> seen, err |-> NilErr]

\* parseParts without the sort.Ints before the return
RECURSIVE parseParts_NoSort(_, _, _, _)
parseParts_NoSort(parts, availableVideos, indices, seen) ==
    IF parts = <<>>
    THEN IF Len(indices) = 0
         THEN [indices |-> NilSlice, err |-> {"errNoValidSelectionsFound"}]
         ELSE [indices |-> Slice(indices), err |-> NilErr]
    ELSE LET part == TrimSpace(Head(parts))
         IN IF part = <<>>
            THEN parseParts_NoSort(Tail(parts), availableVideos, indices, seen)
            ELSE LET r == IF Contains(part, "-")
                          THEN handleRangeSelection(part, availableVideos, indices, seen)
                          ELSE handleSingleSelection(part, availableVideos, indices, seen)
                 IN IF r.err # NilErr
                    THEN [indices |-> NilSlice, err |-> r.err]
                    ELSE parseParts_NoSort(Tail(parts), availableVideos, r.indices, r.seen)

\* parseParts that skips a part it cannot parse instead of returning
RECURSIVE parseParts_SkipInvalid(_, _, _, _)
parseParts_SkipInvalid(parts, availableVideos, indices, seen) ==
    IF parts = <<>>
    THEN IF Len(indices) = 0
         THEN [indices |-> NilSlice, err |-> {"errNoValidSelectionsFound"}]
         ELSE [indices |-> Slice(SortInts(indices)), err |-> NilErr]
    ELSE LET part == TrimSpace(Head(parts))
         IN IF part = <<>>
            THEN parseParts_SkipInvalid(Tail(parts), availableVideos, indices, seen)
            ELSE LET r == IF Contains(part, "-")
                          THEN handleRangeSelection(part, availableVideos, indices, seen)
                          ELSE handleSingleSelection(part, availableVideos, indices, seen)
                 IN IF r.err # NilErr
                    THEN parseParts_SkipInvalid(Tail(parts), availableVideos, indices, seen)
                    ELSE parseParts_SkipInvalid(Tail(parts), availableVideos, r.indices, r.seen)

\* parseParts without the test for an empty result
RECURSIVE parseParts_EmptyOk(_, _, _, _)
parseParts_EmptyOk(parts, availableVideos, indices, seen) ==
    IF parts = <<>>
    THEN [indices |-> Slice(SortInts(indices)), err |-> NilErr]
    ELSE LET part == TrimSpace(Head(parts))
         IN IF part = <<>>
            THEN parseParts_EmptyOk(Tail(parts), availableVideos, indices, seen)
            ELSE LET r == IF Contains(part, "-")
                          THEN handleRangeSelection(part, availableVideos, indices, seen)
                          ELSE handleSingleSelection(part, availableVideos, indices, seen)
                 IN IF r.err # NilErr
                    THEN [indices |-> NilSlice, err |-> r.err]
                    ELSE parseParts_EmptyOk(Tail(parts), availableVideos, r.indices, r.seen)

\* the loop of parseSelection over the parts, and what follows the loop
RECURSIVE parseParts(_, _, _, _)
parseParts(parts, availableVideos, indices, seen) ==
    IF parts = <<>>
    THEN IF Len(indices) = 0
         THEN [indices |-> NilSlice, err |-> {"errNoValidSelectionsFound"}]
         ELSE [indices |-> Slice(SortInts(indices)), err |-> NilErr]
    ELSE LET part == TrimSpace(Head(parts))
         IN IF part = <<>>
            THEN parseParts(Tail(parts), availableVideos, indices, seen)
            ELSE LET r == IF Contains(part, "-")
                          THEN handleRangeSelection(part, availableVideos, indices, seen)
                          ELSE handleSingleSelection(part, availableVideos, indices, seen)
                 IN IF r.err # NilErr
                    THEN [indices |-> NilSlice, err |-> r.err]
                    ELSE parseParts(Tail(parts), availableVideos, r.indices, r.seen)

parseSelection(input, availableVideos) ==
    parseParts(FieldsFunc(input), availableVideos, <<>>, {})

\* reader.ReadString('\n') on what is left on stdin, then strings.TrimSpace
Input(read) == TrimSpace(read)

\* --------------------------------------------------------- key decoding
\* buf := make([]byte, 3)
ReadBufLen == 3

\* the bytes a read delivers: NUL, Ctrl-C, LF, CR, ESC, space, 'A', 'B', '[',
\* 'j', 'k', 'x', DEL
KeyBytes == {0, 3, 10, 13, 27, 32, 65, 66, 91, 106, 107, 120, 127}

\* the bytes that follow the first one when a read delivers several
SeqBytes == {3, 27, 65, 66, 91, 106}

KeyBuffers == UNION {[1..k -> KeyBytes] : k \in 0..1}
                 \cup UNION {[1..k -> SeqBytes] : k \in 2..ReadBufLen}

\* the outcomes of os.Stdin.Read(buf)
Reads == {[buf |-> b, err |-> NilErr] : b \in KeyBuffers}
            \cup {[buf |-> <<>>, err |-> OsErr]}

Ev(k, char) == [Key |-> k, Char |-> char]

NoEvent == Ev("none", 0)

\* ReadKey without the aliases j and k
ReadKey_NoAliases(read) ==
    LET buf == read.buf
        n   == Len(read.buf)
    IN IF read.err # NilErr
       THEN [event |-> Ev("KeyUnknown", 0), err |-> Wrap("errFailedToReadKey", read.err)]
       ELSE [err |-> NilErr, event |->
             IF n = 0 THEN Ev("KeyUnknown", 0)
             ELSE IF buf[1] = 27
                  THEN IF n >= 3 /\ buf[2] = 91 /\ buf[3] = 65 THEN Ev("KeyArrowUp", 0)
                       ELSE IF n >= 3 /\ buf[2] = 91 /\ buf[3] = 66 THEN Ev("KeyArrowDown", 0)
                       ELSE Ev("KeyUnknown", 0)
             ELSE IF buf[1] \in {13, 10} THEN Ev("KeyEnter", 0)
             ELSE IF buf[1] = 32 THEN Ev("KeySpace", 0)
             ELSE IF buf[1] = 3 THEN Ev("KeyCtrlC", 0)
             ELSE IF buf[1] >= 32 /\ buf[1] <= 126 THEN Ev("KeyChar", buf[1])
             ELSE Ev("KeyUnknown", 0)]

ReadKey(read) ==
    LET buf == read.buf
        n   == Len(read.buf)
    IN IF read.err # NilErr
       THEN [event |-> Ev("KeyUnknown", 0), err |-> Wrap("errFailedToReadKey", read.err)]
       ELSE [err |-> NilErr, event |->
             IF n = 0 THEN Ev("KeyUnknown", 0)
             ELSE IF buf[1] = 27
                  THEN IF n >= 3 /\ buf[2] = 91 /\ buf[3] = 65 THEN Ev("KeyArrowUp", 0)
                       ELSE IF n >= 3 /\ buf[2] = 91 /\ buf[3] = 66 THEN Ev("KeyArrowDown", 0)
                       ELSE Ev("KeyUnknown", 0)
             ELSE IF buf[1] \in {13, 10} THEN Ev("KeyEnter", 0)
             ELSE IF buf[1] = 32 THEN Ev("KeySpace", 0)
             ELSE IF buf[1] = 3 THEN Ev("KeyCtrlC", 0)
             ELSE IF buf[1] = 106 THEN Ev("KeyArrowDown", 106)
             ELSE IF buf[1] = 107 THEN Ev("KeyArrowUp", 107)
             ELSE IF buf[1] >= 32 /\ buf[1] <= 126 THEN Ev("KeyChar", buf[1])
             ELSE Ev("KeyUnknown", 0)]

NoKey ==
    [read |-> [buf |-> <<>>, err |-> NilErr], called |-> FALSE,
     event |-> NoEvent, err |-> NilErr]

\* ------------------------------------------------------- selection state
NoState == [videos |-> 0, selected |-> <<>>, currentIndex |-> 0]

\* newSelectionState without the loop that sets every flag
newSelectionState_NoneSelected(n) ==
    [videos |-> n, selected |-> [i \in 0..(n - 1) |-> FALSE], currentIndex |-> 0]

newSelectionState(n) ==
    [videos |-> n, selected |-> [i \in 0..(n - 1) |-> TRUE], currentIndex |-> 0]

part006_newSelectionState(n) ==
    [videos |-> n, selected |-> [i \in 0..(n - 1) |-> TRUE], currentIndex |-> 0,
     highlightEnabled |-> TRUE, rendered |-> FALSE]

RECURSIVE selectedFrom(_, _)
selectedFrom(s, i) ==
    IF i >= s.videos THEN <<>>
    ELSE (IF s.selected[i] THEN <<i>> ELSE <<>>) \o selectedFrom(s, i + 1)

\* getSelectedIndices with make([]int, len(s.selected)) in place of
\* make([]int, 0, len(s.selected)): the appends follow len zeroes
getSelectedIndices_MakeLen(s) == [i \in 1..s.videos |-> 0] \o selectedFrom(s, 0)

getSelectedIndices(s) == selectedFrom(s, 0)

\* moveDown without the wrap to the first item
moveDown_NoWrap(s) == [s EXCEPT !.currentIndex = s.currentIndex + 1]

moveDown(s) == [s EXCEPT !.currentIndex = (s.currentIndex + 1) % s.videos]

moveUp(s) ==
    [s EXCEPT !.currentIndex = (s.currentIndex - 1 + s.videos) % s.videos]

ui_moveDown(s) ==
    IF s.currentIndex < s.videos - 1
    THEN [state |-> [s EXCEPT !.currentIndex = s.currentIndex + 1], moved |-> TRUE]
    ELSE [state |-> s, moved |-> FALSE]

ui_moveUp(s) ==
    IF s.currentIndex > 0
    THEN [state |-> [s EXCEPT !.currentIndex = s.currentIndex - 1], moved |-> TRUE]
    ELSE [state |-> s, moved |-> FALSE]

\* toggleCurrent that stops at the last item instead of wrapping
toggleCurrent_NoWrap(s) ==
    [s EXCEPT !.selected[s.currentIndex] = ~s.selected[s.currentIndex],
              !.currentIndex = IF s.currentIndex < s.videos - 1
                               THEN s.currentIndex + 1 ELSE s.currentIndex]

toggleCurrent(s) ==
    [s EXCEPT !.selected[s.currentIndex] = ~s.selected[s.currentIndex],
              !.currentIndex = (s.currentIndex + 1) % s.videos]

\* what handleEvent leaves behind: the state, (shouldRender, shouldExit), the
\* error, and whether the process was ended by os.Exit
Handled(s, shouldRender, shouldExit, err, osExit) ==
    [state |-> s, shouldRender |-> shouldRender, shouldExit |-> shouldExit,
     err |-> err, osExit |-> osExit]

\* handleEvent that leaves the loop on a key it does not know
handleEvent_OtherExits(s, ev) ==
    CASE ev.Key = "KeyArrowUp"   -> Handled(moveUp(s), TRUE, FALSE, NilErr, FALSE)
      [] ev.Key = "KeyArrowDown" -> Handled(moveDown(s), TRUE, FALSE, NilErr, FALSE)
      [] ev.Key = "KeySpace"     -> Handled(toggleCurrent(s), TRUE, FALSE, NilErr, FALSE)
      [] ev.Key = "KeyEnter"     -> Handled(s, FALSE, TRUE, NilErr, FALSE)
      [] ev.Key = "KeyCtrlC"     -> Handled(s, FALSE, TRUE, {"ErrUserAbort"}, FALSE)
      [] OTHER                   -> Handled(s, FALSE, TRUE, NilErr, FALSE)

handleEvent(s, ev) ==
    CASE ev.Key = "KeyArrowUp"   -> Handled(moveUp(s), TRUE, FALSE, NilErr, FALSE)
      [] ev.Key = "KeyArrowDown" -> Handled(moveDown(s), TRUE, FALSE, NilErr, FALSE)
      [] ev.Key = "KeySpace"     -> Handled(toggleCurrent(s), TRUE, FALSE, NilErr, FALSE)
      [] ev.Key = "KeyEnter"     -> Handled(s, FALSE, TRUE, NilErr, FALSE)
      [] ev.Key = "KeyCtrlC"     -> Handled(s, FALSE, TRUE, {"ErrUserAbort"}, FALSE)
      [] OTHER                   -> Handled(s, TRUE, FALSE, NilErr, FALSE)

part006_handleEvent(s, ev) ==
    CASE ev.Key = "KeyArrowUp"   -> Handled(moveUp(s), TRUE, FALSE, NilErr, FALSE)
      [] ev.Key = "KeyArrowDown" -> Handled(moveDown(s), TRUE, FALSE, NilErr, FALSE)
      [] ev.Key = "KeySpace"     -> Handled(toggleCurrent(s), TRUE, FALSE, NilErr, FALSE)
      [] ev.Key = "KeyEnter"     ->
            Handled([s EXCEPT !.highlightEnabled = FALSE], TRUE, TRUE, NilErr, FALSE)
      [] ev.Key = "KeyCtrlC"     -> Handled(s, FALSE, TRUE, {"ErrUserAbort"}, FALSE)
      [] ev.Key = "KeyUnknown"   -> Handled(s, FALSE, FALSE, NilErr, FALSE)
      [] OTHER                   -> Handled(s, TRUE, FALSE, NilErr, FALSE)

ui_handleEvent(s, ev) ==
    CASE ev.Key = "KeyArrowUp"   ->
            Handled(ui_moveUp(s).state, ui_moveUp(s).moved, FALSE, NilErr, FALSE)
      [] ev.Key = "KeyArrowDown" ->
            Handled(ui_moveDown(s).state, ui_moveDown(s).moved, FALSE, NilErr, FALSE)
      [] ev.Key = "KeySpace"     -> Handled(toggleCurrent(s), TRUE, FALSE, NilErr, FALSE)
      [] ev.Key = "KeyEnter"     -> Handled(s, FALSE, TRUE, NilErr, FALSE)
      [] ev.Key = "KeyCtrlC"     -> Handled(s, FALSE, FALSE, NilErr, TRUE)
      [] OTHER                   -> Handled(s, FALSE, FALSE, NilErr, FALSE)

\* part_006 render: the header and the help line are printed once
part006_render(s) == [s EXCEPT !.rendered = TRUE]

\* ---------------------------------------------------- overwrite decision
\* the characters typed at a (y/N) prompt
AnswerChars == {"y", "Y", "e", "s", "n", " "}

Responses == UNION {[1..k -> AnswerChars] : k \in 0..MaxAnswer}

\* strings.ToLower
ToLower(str) == [i \in 1..Len(str) |-> IF str[i] = "Y" THEN "y" ELSE str[i]]

\* input.Confirm on the line the user types
Confirm(typed) ==
    LET response == ToLower(TrimSpace(Input(typed)))
    IN response = <<"y">> \/ response = <<"y", "e", "s">>

\* the fields of models.DownloadConfig the decision reads
Configs == [Force : BOOLEAN, Skip : BOOLEAN]

\* OverwriteVideoIfExists that looks at Skip before Force
OverwriteVideoIfExists_SkipFirst(exists, typed, config) ==
    IF exists /\ config.Skip
    THEN [value |-> FALSE, prompted |-> FALSE]
    ELSE IF ~config.Force /\ exists
    THEN [value |-> Confirm(typed), prompted |-> TRUE]
    ELSE [value |-> TRUE, prompted |-> FALSE]

\* dir.OverwriteVideoIfExists: exists is whether os.Stat finds the file;
\* value is what it returns, prompted whether it called Confirm
OverwriteVideoIfExists(exists, typed, config) ==
    IF ~config.Force /\ exists
    THEN IF config.Skip
         THEN [value |-> FALSE, prompted |-> FALSE]
         ELSE [value |-> Confirm(typed), prompted |-> TRUE]
    ELSE [value |-> TRUE, prompted |-> FALSE]

NoOverwrite ==
    [config |-> [Force |-> FALSE, Skip |-> FALSE], exists |-> FALSE,
     typed |-> <<>>, called |-> FALSE, value |-> FALSE, prompted |-> FALSE]

\* OverwriteVideoIfExists as downloadVideo and prepareDownloads read it:
\* true when the download is to be skipped
part000_OverwriteVideoIfExists(exists, typed, config) ==
    IF ~config.Force /\ exists
    THEN IF config.Skip
         THEN [value |-> TRUE, prompted |-> FALSE]
         ELSE [value |-> ~Confirm(typed), prompted |-> TRUE]
    ELSE [value |-> FALSE, prompted |-> FALSE]

\* ---------------------------------------------------------------- download
mediaTypes == {"unknownType", "videoType", "channelType"}

\* the error of a failed request to the API
HttpErr == {"errHTTPNotOK"}

\* what downloadVideo may return
downloadVideoErrs ==
    {NilErr,
     Wrap("errFailedToGetVideoInfo", HttpErr),
     Wrap("errFailedToGetVideoVariants", HttpErr),
     {"errNoVariantsFound"},
     Wrap("errFailedToCreateVideoFile", Wrap("errFailedToCreateFolder", OsErr)),
     Wrap("errFailedToCreateVideoFile", Wrap("ErrFailedToCreateFile", OsErr)),
     Wrap("errFailedToDownloadVideo", HttpErr)}

\* len(selectedIndices) == 0 tested for a nil slice only
nothingSelected_Nil(selectedIndices) == selectedIndices.nil

\* len(selectedIndices) == 0
nothingSelected(selectedIndices) == Len(selectedIndices.elems) = 0

\* Download that wraps the error of downloadChannel for every input
channelError_AlwaysWraps(downloadType, err) ==
    Wrap("errFailedToDownloadChannel", err)

\* what Download makes of an error of downloadChannel
channelError(downloadType, err) ==
    IF downloadType = "unknownType" THEN {"errInvalidID"}
    ELSE Wrap("errFailedToDownloadChannel", err)

Range(sq) == {sq[i] : i \in 1..Len(sq)}

NoSummary == [successful |-> 0, selected |-> 0, failed |-> <<>>]

NoDownload ==
    [downloadType |-> "unknownType", config |-> [Force |-> FALSE, Skip |-> FALSE],
     pc |-> "idle", err |-> NilErr, attempts |-> <<>>, videoErr |-> NilErr,
     channelErr |-> NilErr, folder |-> FALSE,
     requested |-> {}, next |-> 1, toDownload |-> <<>>, failed |-> <<>>,
     streamed |-> {}, completed |-> {}, summary |-> NoSummary]

\* ------------------------------------------------- the media argument
\* config.Media is a string made of these pieces; none of them begins
\* another, so a prefix of pieces is a prefix of characters and the reverse
MediaPieces == {" ", "https://tube.switch.ch", "/", "videos", "channels", "1"}

RECURSIVE StringsUpTo(_, _)
StringsUpTo(S, n) ==
    IF n = 0 THEN {<<>>}
    ELSE LET shorter == StringsUpTo(S, n - 1)
         IN shorter \cup {Append(w, c) : w \in {v \in shorter : Len(v) = n - 1}, c \in S}

Medias == StringsUpTo(MediaPieces, MaxMedia)

baseURL == <<"https://tube.switch.ch", "/">>
videoPrefix == <<"videos", "/">>
channelPrefix == <<"channels", "/">>

\* strings.HasPrefix
HasPrefix(s, prefix) ==
    /\ Len(prefix) <= Len(s)
    /\ SubSeq(s, 1, Len(prefix)) = prefix

\* strings.TrimPrefix
TrimPrefix(s, prefix) ==
    IF HasPrefix(s, prefix) THEN SubSeq(s, Len(prefix) + 1, Len(s)) ELSE s

\* extractIDAndType that takes every URL of the site for a video
extractIDAndType_VideoOnly(input) ==
    LET in == TrimSpace(input)
    IN IF ~HasPrefix(in, baseURL)
       THEN [id |-> in, type |-> "unknownType", err |-> NilErr]
       ELSE [id |-> TrimPrefix(TrimPrefix(in, baseURL), videoPrefix),
             type |-> "videoType", err |-> NilErr]

extractIDAndType(input) ==
    LET in == TrimSpace(input)
        prefixAndID == TrimPrefix(in, baseURL)
    IN IF ~HasPrefix(in, baseURL)
       THEN [id |-> in, type |-> "unknownType", err |-> NilErr]
       ELSE IF HasPrefix(prefixAndID, videoPrefix)
       THEN [id |-> TrimPrefix(prefixAndID, videoPrefix),
             type |-> "videoType", err |-> NilErr]
       ELSE IF HasPrefix(prefixAndID, channelPrefix)
       THEN [id |-> TrimPrefix(prefixAndID, channelPrefix),
             type |-> "channelType", err |-> NilErr]
       ELSE [id |-> prefixAndID, type |-> "unknownType",
             err |-> {"errInvalidURL"}]

NoExtract == [id |-> <<>>, type |-> "unknownType", err |-> NilErr]

NoMedia ==
    [input |-> <<>>, pc |-> "idle", extracted |-> NoExtract, requests |-> 0,
     err |-> NilErr]

\* ------------------------------------------------ parallel downloads
\* the row of the progress bar that goes to the i-th goroutine, counted
\* from the bottom of the rows reserved
rowIndex_FromZero(numVideos, i) == numVideos - i - 1

rowIndex(numVideos, i) == numVideos - i

\* len(filepath.Base(filename)) of a video
BasenameLen(videoIdx) == videoIdx + 1

Max(a, b) == IF a > b THEN a ELSE b

NoParallel ==
    [indices |-> <<>>, pc |-> "idle", goroutines |-> <<>>, wg |-> 0,
     failedLock |-> 0, failed |-> <<>>, maxFilenameWidth |-> 0,
     returned |-> <<>>]

\* ---------------------------------------------------- progress writer
\* the two progressWriter of the repository
WriterPackages == {"ui", "progress"}

\* what pw.writer.Write(p) may return for len(p) = length: all of p and no
\* error, or an error with some of p
UnderlyingWrites(length) ==
    {[n |-> length, err |-> NilErr]}
        \cup [n : 0..length, err : {{"EIO"}}]

\* the error Write of the package returns after pw.writer.Write returned err
WriteError(package, err) ==
    IF package = "ui" \/ err # NilErr
    THEN Wrap("errFailedToCopyData", err)
    ELSE NilErr

NoWrite == [len |-> 0, before |-> 0, under |-> [n |-> 0, err |-> NilErr],
            n |-> 0, err |-> NilErr]

NoWriter ==
    [package |-> "progress", pc |-> "idle", written |-> 0, displays |-> 0,
     last |-> NoWrite, err |-> NilErr]

\* ------------------------------------------------------ token manager
\* the keyring entry of the user: no entry, or the token it holds
NoToken == ""
Tokens == {"existing-token", "new-token"}

\* the Delete of internal/token/token.go and the one of unnamed/part_012
DeleteVersions == {"token", "part012"}

\* what a call of the Manager meets: whether user.Current works, whether
\* the keyring backend fails, what the API says to the stored token, what
\* the user answers to Confirm and types at Input, and what the API says to
\* the token typed
TokenInputs ==
    [userOk : BOOLEAN, keyringFails : BOOLEAN,
     stored : {"200", "401", "unreachable"},
     answer : BOOLEAN, typed : {NoToken, "new-token"},
     status : {"200", "401", "unreachable"}]

UserErr == {"failed to get current user"}

\* validateToken that takes every answer of the API for a yes
validateToken_AlwaysValid(status) == NilErr

\* validateToken by the answer of the API to the profile request
validateToken(status) ==
    IF status = "unreachable" THEN Wrap("errFailedToValidateToken", {"net"})
    ELSE IF status # "200" THEN {"errTokenInvalid"}
    ELSE NilErr

\* Manager.Get on the keyring
Get(keyring, in) ==
    IF ~in.userOk THEN [token |-> NoToken, err |-> UserErr]
    ELSE IF keyring = NoToken THEN [token |-> NoToken, err |-> {"errNoToken"}]
    ELSE IF in.keyringFails
    THEN [token |-> NoToken, err |-> {"failed to retrieve token", "keyring"}]
    ELSE IF validateToken(in.stored) # NilErr
    THEN [token |-> keyring,
          err |-> Wrap("stored token is invalid", validateToken(in.stored))]
    ELSE [token |-> keyring, err |-> NilErr]

\* checkExistingToken: its error, and whether it asked for confirmation
checkExistingToken(keyring, in) ==
    IF Is(Get(keyring, in).err, "errNoToken")
    THEN [err |-> NilErr, confirms |-> 0]
    ELSE IF ~in.answer
    THEN [err |-> {"ErrTokenAlreadyExists"}, confirms |-> 1]
    ELSE [err |-> NilErr, confirms |-> 1]

\* Manager.Set: what it returns and what the keyring holds afterwards
SetToken(keyring, in) ==
    LET check == checkExistingToken(keyring, in)
        base == [keyring |-> keyring, confirms |-> check.confirms,
                 inputs |-> 0, err |-> NilErr]
    IN IF check.err # NilErr THEN [base EXCEPT !.err = check.err]
       ELSE IF in.typed = NoToken
       THEN [base EXCEPT !.inputs = 1, !.err = {"errTokenEmpty"}]
       ELSE IF validateToken(in.status) # NilErr
       THEN [base EXCEPT !.inputs = 1, !.err = validateToken(in.status)]
       ELSE IF ~in.userOk
       THEN [base EXCEPT !.inputs = 1, !.err = UserErr]
       ELSE IF in.keyringFails
       THEN [base EXCEPT !.inputs = 1,
                         !.err = {"failed to store token", "keyring"}]
       ELSE [base EXCEPT !.inputs = 1, !.keyring = in.typed]

\* Manager.Delete of the version
DeleteToken(version, keyring, in) ==
    LET asks == version = "token"
        base == [keyring |-> keyring, confirms |-> 0, inputs |-> 0,
                 err |-> NilErr]
    IN IF ~in.userOk THEN [base EXCEPT !.err = UserErr]
       ELSE IF asks /\ ~in.answer THEN [base EXCEPT !.confirms = 1]
       ELSE LET asked == [base EXCEPT !.confirms = IF asks THEN 1 ELSE 0]
            IN IF keyring = NoToken
               THEN [asked EXCEPT !.err = {"errNoToken"}]
               ELSE IF in.keyringFails
               THEN [asked EXCEPT !.err = {"failed to delete token", "keyring"}]
               ELSE [asked EXCEPT !.keyring = NoToken]

NoCall ==
    [op |-> "none", before |-> NoToken,
     in |-> [userOk |-> TRUE, keyringFails |-> FALSE, stored |-> "200",
             answer |-> FALSE, typed |-> NoToken, status |-> "200"],
     confirms |-> 0, inputs |-> 0, err |-> NilErr]

NoManager == [version |-> "token", keyring |-> NoToken, last |-> NoCall]

\* ------------------------------------------------------------- actions
Impls == {"input", "part006", "ui"}

Return(indices, err) ==
    /\ pc' = "returned"
    /\ result' = [indices |-> indices, err |-> err]

\* defer func() { _ = termState.Restore(); fmt.Print(ShowCursor) }()
Deferred ==
    /\ rawMode' = FALSE
    /\ cursorHidden' = FALSE

\* terminal.EnableRawMode succeeds only on a terminal (term.MakeRaw)
CanEnableRawMode(rawOk) == rawOk => isTerminal

\* SelectVideos that hides the cursor before it enables raw mode
SelectVideos_HideCursorFirst ==
    /\ impl \in {"input", "part006"}
    /\ pc = "call"
    /\ \E rawOk \in {ok \in BOOLEAN : CanEnableRawMode(ok)} :
       IF all \/ videos = 0
       THEN /\ Return(Slice(AllIndices(videos)), NilErr)
            /\ UNCHANGED <<state, rawMode, cursorHidden, drawn>>
       ELSE IF ~rawOk
       THEN /\ Return(NilSlice,
                      Wrap("ErrFailedToSetRawMode", Wrap("ErrFailedToSetRawMode", OsErr)))
            /\ cursorHidden' = TRUE
            /\ UNCHANGED <<state, rawMode, drawn>>
       ELSE /\ rawMode' = TRUE
            /\ cursorHidden' = TRUE
            /\ state' = IF impl = "part006"
                        THEN part006_render(part006_newSelectionState(videos))
                        ELSE newSelectionState(videos)
            /\ drawn' = TRUE
            /\ pc' = "loop"
            /\ UNCHANGED result
    /\ UNCHANGED <<units, impl, dl, ow, stdin, all, videos, isTerminal, event, line>>

\* input.SelectVideos up to the first ReadKey of runEventLoop
SelectVideos ==
    /\ impl \in {"input", "part006"}
    /\ pc = "call"
    /\ \E rawOk \in {ok \in BOOLEAN : CanEnableRawMode(ok)} :
       IF all \/ videos = 0
       THEN /\ Return(Slice(AllIndices(videos)), NilErr)
            /\ UNCHANGED <<state, rawMode, cursorHidden, drawn>>
       ELSE IF ~rawOk
       THEN /\ Return(NilSlice,
                      Wrap("ErrFailedToSetRawMode", Wrap("ErrFailedToSetRawMode", OsErr)))
            /\ UNCHANGED <<state, rawMode, cursorHidden, drawn>>
       ELSE /\ rawMode' = TRUE
            /\ cursorHidden' = TRUE
            /\ state' = IF impl = "part006"
                        THEN part006_render(part006_newSelectionState(videos))
                        ELSE newSelectionState(videos)
            /\ drawn' = TRUE
            /\ pc' = "loop"
            /\ UNCHANGED result
    /\ UNCHANGED <<units, impl, dl, ow, stdin, all, videos, isTerminal, event, line>>

\* one iteration of runEventLoop (input/interactive.go)
runEventLoop ==
    /\ impl = "input"
    /\ pc = "loop"
    /\ \E read \in Reads :
       LET k == ReadKey(read)
           h == handleEvent(state, k.event)
       IN /\ event' = k.event
          /\ IF k.err # NilErr
             THEN /\ Return(NilSlice, Wrap("errFailedToReadKey", k.err))
                  /\ Deferred
                  /\ UNCHANGED <<state, drawn>>
             ELSE IF h.err # NilErr
             THEN /\ Return(NilSlice, h.err)
                  /\ Deferred
                  /\ state' = h.state
                  /\ UNCHANGED drawn
             ELSE IF h.shouldExit
             THEN /\ Return(Slice(getSelectedIndices(h.state)), NilErr)
                  /\ Deferred
                  /\ state' = h.state
                  /\ UNCHANGED drawn
             ELSE /\ state' = h.state
                  /\ drawn' = (drawn \/ h.shouldRender)
                  /\ UNCHANGED <<pc, result, rawMode, cursorHidden>>
    /\ UNCHANGED <<units, impl, dl, ow, stdin, all, videos, isTerminal, line>>

\* one iteration of runEventLoop (part_006): renders before it leaves
part006_runEventLoop ==
    /\ impl = "part006"
    /\ pc = "loop"
    /\ \E read \in Reads :
       LET k == ReadKey(read)
           h == part006_handleEvent(state, k.event)
           r == IF h.shouldRender THEN part006_render(h.state) ELSE h.state
       IN /\ event' = k.event
          /\ IF k.err # NilErr
             THEN /\ Return(NilSlice, Wrap("errFailedToReadKey", k.err))
                  /\ Deferred
                  /\ UNCHANGED <<state, drawn>>
             ELSE IF h.err # NilErr
             THEN /\ Return(NilSlice, h.err)
                  /\ Deferred
                  /\ state' = h.state
                  /\ UNCHANGED drawn
             ELSE IF h.shouldExit
             THEN /\ Return(Slice(getSelectedIndices(r)), NilErr)
                  /\ Deferred
                  /\ state' = r
                  /\ drawn' = (drawn \/ h.shouldRender)
             ELSE /\ state' = r
                  /\ drawn' = (drawn \/ h.shouldRender)
                  /\ UNCHANGED <<pc, result, rawMode, cursorHidden>>
    /\ UNCHANGED <<units, impl, dl, ow, stdin, all, videos, isTerminal, line>>

\* ui.SelectVideos on --all, an empty list or a terminal: the shortcut, or
\* interactiveSelect up to the first ReadKey of runEventLoop
ui_SelectVideos ==
    /\ impl = "ui"
    /\ pc = "call"
    /\ all \/ videos = 0 \/ isTerminal
    /\ \E rawOk \in {ok \in BOOLEAN : CanEnableRawMode(ok)} :
       IF all \/ videos = 0
       THEN /\ Return(Slice(AllIndices(videos)), NilErr)
            /\ UNCHANGED <<state, rawMode, cursorHidden, drawn>>
       ELSE IF ~rawOk
       THEN /\ Return(NilSlice,
                      Wrap("errFailedToSetRawMode", Wrap("errFailedToSetRawMode", OsErr)))
            /\ UNCHANGED <<state, rawMode, cursorHidden, drawn>>
       ELSE /\ rawMode' = TRUE
            /\ cursorHidden' = TRUE
            /\ state' = newSelectionState(videos)
            /\ drawn' = TRUE
            /\ pc' = "loop"
            /\ UNCHANGED result
    /\ UNCHANGED <<units, impl, dl, ow, stdin, all, videos, isTerminal, event, line>>

\* one iteration of runEventLoop (ui/interactive.go)
ui_runEventLoop ==
    /\ impl = "ui"
    /\ pc = "loop"
    /\ \E read \in Reads :
       LET k == ReadKey(read)
           h == ui_handleEvent(state, k.event)
       IN /\ event' = k.event
          /\ IF k.err # NilErr
             THEN /\ Return(NilSlice, Wrap("errFailedToReadKey", k.err))
                  /\ Deferred
                  /\ UNCHANGED <<state, drawn>>
             ELSE IF h.osExit
             THEN /\ pc' = "exited"
                  /\ UNCHANGED <<state, drawn, result, rawMode, cursorHidden>>
             ELSE IF h.shouldExit
             THEN /\ Return(Slice(getSelectedIndices(h.state)), NilErr)
                  /\ Deferred
                  /\ state' = h.state
                  /\ UNCHANGED drawn
             ELSE /\ state' = h.state
                  /\ drawn' = (drawn \/ h.shouldRender)
                  /\ UNCHANGED <<pc, result, rawMode, cursorHidden>>
    /\ UNCHANGED <<units, impl, dl, ow, stdin, all, videos, isTerminal, line>>

\* the characters typed at the prompt
Chars == {"0", "1", "2", "-", ",", " ", "\t", "x"}

Lines == UNION {[1..k -> Chars] : k \in 0..MaxLen}

\* reader.ReadString('\n'): up to and including the first newline
RECURSIVE ReadString(_)
ReadString(reader) ==
    IF reader = <<>> THEN <<>>
    ELSE IF Head(reader) = "\n" THEN <<"\n">>
    ELSE <<Head(reader)>> \o ReadString(Tail(reader))

\* ui.SelectVideos when stdin is not a terminal: table, prompt, one line
ui_SelectVideosText ==
    /\ impl = "ui"
    /\ pc = "call"
    /\ ~(all \/ videos = 0)
    /\ ~isTerminal
    /\ \E typed \in Lines :
       LET input == TrimSpace(Input(ReadString(typed \o <<"\n">>)))
           parsed == parseSelection(input, videos)
       IN /\ line' = input
          /\ drawn' = TRUE
          /\ IF input = <<>>
             THEN Return(Slice(AllIndices(videos)), NilErr)
             ELSE Return(parsed.indices, parsed.err)
    /\ UNCHANGED <<units, impl, dl, ow, stdin, all, videos, isTerminal, state, event, rawMode, cursorHidden>>

\* ------------------------------------------------------- specifications
\* every function that is called on its own, but the named one, is at rest
IdleBut(unit) ==
    /\ unit = "key" \/ key = NoKey
    /\ unit = "media" \/ media = NoMedia
    /\ unit = "par" \/ par = NoParallel
    /\ unit = "pw" \/ pw = NoWriter
    /\ unit = "tok" \/ tok = NoManager

\* a session on a terminal
Init ==
    /\ impl \in Impls
    /\ all \in BOOLEAN
    /\ videos \in 0..MaxVideos
    /\ isTerminal = TRUE
    /\ pc = "call"
    /\ state = NoState
    /\ event = NoEvent
    /\ rawMode = FALSE
    /\ cursorHidden = FALSE
    /\ drawn = FALSE
    /\ line = <<>>
    /\ stdin = <<>>
    /\ ow = NoOverwrite
    /\ dl = NoDownload
    /\ result = NoResult
    /\ IdleBut("")

Next ==
    \/ SelectVideos
    \/ runEventLoop
    \/ part006_runEventLoop
    \/ ui_SelectVideos
    \/ ui_runEventLoop

Spec == Init /\ [][Next]_vars

\* ui.SelectVideos with stdin piped or redirected
TextInit ==
    /\ impl = "ui"
    /\ all \in BOOLEAN
    /\ videos \in 0..MaxItems
    /\ isTerminal = FALSE
    /\ pc = "call"
    /\ state = NoState
    /\ event = NoEvent
    /\ rawMode = FALSE
    /\ cursorHidden = FALSE
    /\ drawn = FALSE
    /\ line = <<>>
    /\ stdin = <<>>
    /\ ow = NoOverwrite
    /\ dl = NoDownload
    /\ result = NoResult
    /\ IdleBut("")

TextNext ==
    \/ ui_SelectVideos
    \/ ui_SelectVideosText

TextSpec == TextInit /\ [][TextNext]_vars

\* the lines a pipe may hold when SelectVideos is called
PipedLines == {typed \o <<"\n">> : typed \in UNION {[1..k -> Chars] : k \in 0..MaxPiped}}

\* ui.SelectVideos when stdin is a pipe that holds a line: table, prompt,
\* the line
ui_SelectVideosPiped ==
    /\ impl = "ui"
    /\ pc = "call"
    /\ ~(all \/ videos = 0)
    /\ ~isTerminal
    /\ LET input == TrimSpace(Input(ReadString(stdin)))
           parsed == parseSelection(input, videos)
       IN /\ line' = input
          /\ stdin' = <<>>
          /\ drawn' = TRUE
          /\ IF input = <<>>
             THEN Return(Slice(AllIndices(videos)), NilErr)
             ELSE Return(parsed.indices, parsed.err)
    /\ UNCHANGED <<units, impl, dl, ow, all, videos, isTerminal, state, event, rawMode, cursorHidden>>

\* SelectVideos of either package, on a terminal or with a line piped in
PipedInit ==
    /\ impl \in Impls
    /\ all \in BOOLEAN
    /\ videos \in 0..MaxItems
    /\ isTerminal \in BOOLEAN
    /\ pc = "call"
    /\ state = NoState
    /\ event = NoEvent
    /\ rawMode = FALSE
    /\ cursorHidden = FALSE
    /\ drawn = FALSE
    /\ line = <<>>
    /\ stdin \in IF isTerminal THEN {<<>>} ELSE PipedLines
    /\ ow = NoOverwrite
    /\ dl = NoDownload
    /\ result = NoResult
    /\ IdleBut("")

PipedNext ==
    \/ SelectVideos
    \/ runEventLoop
    \/ part006_runEventLoop
    \/ ui_SelectVideos
    \/ ui_runEventLoop
    \/ ui_SelectVideosPiped

PipedSpec == PipedInit /\ [][PipedNext]_vars

\* one call of dir.OverwriteVideoIfExists
OverwriteCall ==
    /\ ~ow.called
    /\ LET r == OverwriteVideoIfExists(ow.exists, ow.typed, ow.config)
       IN ow' = [ow EXCEPT !.called = TRUE, !.value = r.value,
                           !.prompted = r.prompted]
    /\ UNCHANGED <<units, impl, all, videos, isTerminal, pc, state, event, rawMode,
                   cursorHidden, drawn, line, stdin, dl, result>>

\* a file that exists or not, the flags, and what the user would answer
OverwriteInit ==
    /\ impl = "input"
    /\ all = FALSE
    /\ videos = 0
    /\ isTerminal = FALSE
    /\ pc = "idle"
    /\ state = NoState
    /\ event = NoEvent
    /\ rawMode = FALSE
    /\ cursorHidden = FALSE
    /\ drawn = FALSE
    /\ line = <<>>
    /\ stdin = <<>>
    /\ ow \in [config : Configs, exists : BOOLEAN, typed : Responses,
                called : {FALSE}, value : {FALSE}, prompted : {FALSE}]
    /\ dl = NoDownload
    /\ result = NoResult
    /\ IdleBut("")

OverwriteNext == OverwriteCall

OverwriteSpec == OverwriteInit /\ [][OverwriteNext]_vars

\* one call of ReadKey
ReadKeyCall ==
    /\ ~key.called
    /\ LET r == ReadKey(key.read)
       IN key' = [key EXCEPT !.called = TRUE, !.event = r.event, !.err = r.err]
    /\ UNCHANGED <<media, par, pw, tok, impl, all, videos, isTerminal, pc, state, event, rawMode,
                   cursorHidden, drawn, line, stdin, ow, dl, result>>

\* a read of stdin that is about to be decoded
KeyInit ==
    /\ impl = "input"
    /\ all = FALSE
    /\ videos = 0
    /\ isTerminal = TRUE
    /\ pc = "idle"
    /\ state = NoState
    /\ event = NoEvent
    /\ rawMode = TRUE
    /\ cursorHidden = TRUE
    /\ drawn = FALSE
    /\ line = <<>>
    /\ stdin = <<>>
    /\ ow = NoOverwrite
    /\ dl = NoDownload
    /\ result = NoResult
    /\ key \in [read : Reads, called : {FALSE}, event : {NoEvent}, err : {NilErr}]
    /\ IdleBut("key")

KeyNext == ReadKeyCall

KeySpec == KeyInit /\ [][KeyNext]_vars

\* everything but the functions that are called on their own, at rest
SessionIdle ==
    /\ impl = "input"
    /\ all = FALSE
    /\ videos = 0
    /\ isTerminal = TRUE
    /\ pc = "idle"
    /\ state = NoState
    /\ event = NoEvent
    /\ rawMode = TRUE
    /\ cursorHidden = TRUE
    /\ drawn = FALSE
    /\ line = <<>>
    /\ stdin = <<>>
    /\ ow = NoOverwrite
    /\ dl = NoDownload
    /\ result = NoResult

\* the head of Download: extractIDAndType and the return on its error
DownloadHead ==
    /\ media.pc = "start"
    /\ LET r == extractIDAndType(media.input)
       IN media' = [media EXCEPT
                       !.extracted = r,
                       !.pc = IF r.err # NilErr THEN "done" ELSE "extracted",
                       !.err = IF r.err # NilErr
                               THEN Wrap("errFailedToExtractType", r.err)
                               ELSE NilErr]
    /\ UNCHANGED <<key, par, pw, tok, impl, all, videos, isTerminal, pc, state, event, rawMode,
                   cursorHidden, drawn, line, stdin, ow, dl, result>>

\* the first request of the downloader Download built
FirstRequest ==
    /\ media.pc = "extracted"
    /\ media' = [media EXCEPT !.pc = "requested", !.requests = @ + 1]
    /\ UNCHANGED <<key, par, pw, tok, impl, all, videos, isTerminal, pc, state, event, rawMode,
                   cursorHidden, drawn, line, stdin, ow, dl, result>>

\* Download called with some config.Media
MediaInit ==
    /\ SessionIdle
    /\ media \in [input : Medias, pc : {"start"}, extracted : {NoExtract},
                  requests : {0}, err : {NilErr}]
    /\ IdleBut("media")

MediaNext == DownloadHead \/ FirstRequest

MediaSpec == MediaInit /\ [][MediaNext]_vars

\* one turn of the loop of downloadVideosParallel: wg.Add(1) and go func
Spawn ==
    /\ par.pc = "loop"
    /\ Len(par.goroutines) < Len(par.indices)
    /\ LET i == Len(par.goroutines)
           numVideos == Len(par.indices)
       IN par' = [par EXCEPT
                     !.wg = @ + 1,
                     !.goroutines = Append(@, [videoIdx |-> par.indices[i + 1],
                                               rowIndex |-> rowIndex(numVideos, i),
                                               pc |-> "variants",
                                               failed |-> FALSE])]
    /\ UNCHANGED <<key, media, pw, tok, impl, all, videos, isTerminal, pc, state, event,
                   rawMode, cursorHidden, drawn, line, stdin, ow, dl, result>>

\* goroutine g: getVideoVariants and, with variants, the width
GetVariants(g) ==
    /\ par.goroutines[g].pc = "variants"
    /\ \E ok \in BOOLEAN :
       par' = [par EXCEPT
                  !.goroutines[g].pc = IF ok THEN "download" ELSE "lock",
                  !.goroutines[g].failed = ~ok,
                  !.maxFilenameWidth =
                      IF ok THEN Max(@, BasenameLen(par.goroutines[g].videoIdx))
                      ELSE @]
    /\ UNCHANGED <<key, media, pw, tok, impl, all, videos, isTerminal, pc, state, event,
                   rawMode, cursorHidden, drawn, line, stdin, ow, dl, result>>

\* goroutine g: downloadVideo
DownloadOne(g) ==
    /\ par.goroutines[g].pc = "download"
    /\ \E ok \in BOOLEAN :
       par' = [par EXCEPT
                  !.goroutines[g].pc = IF ok THEN "exit" ELSE "lock",
                  !.goroutines[g].failed = ~ok]
    /\ UNCHANGED <<key, media, pw, tok, impl, all, videos, isTerminal, pc, state, event,
                   rawMode, cursorHidden, drawn, line, stdin, ow, dl, result>>

\* goroutine g: failedLock.Lock()
LockFailed(g) ==
    /\ par.goroutines[g].pc = "lock"
    /\ par.failedLock = 0
    /\ par' = [par EXCEPT !.failedLock = g, !.goroutines[g].pc = "append"]
    /\ UNCHANGED <<key, media, pw, tok, impl, all, videos, isTerminal, pc, state, event,
                   rawMode, cursorHidden, drawn, line, stdin, ow, dl, result>>

\* goroutine g: failed = append(failed, video.Title); failedLock.Unlock()
AppendFailed(g) ==
    /\ par.goroutines[g].pc = "append"
    /\ par' = [par EXCEPT
                  !.failed = Append(@, par.goroutines[g].videoIdx),
                  !.failedLock = 0,
                  !.goroutines[g].pc = "exit"]
    /\ UNCHANGED <<key, media, pw, tok, impl, all, videos, isTerminal, pc, state, event,
                   rawMode, cursorHidden, drawn, line, stdin, ow, dl, result>>

\* goroutine g: the deferred wg.Done()
WgDone(g) ==
    /\ par.goroutines[g].pc = "exit"
    /\ par' = [par EXCEPT !.wg = @ - 1, !.goroutines[g].pc = "done"]
    /\ UNCHANGED <<key, media, pw, tok, impl, all, videos, isTerminal, pc, state, event,
                   rawMode, cursorHidden, drawn, line, stdin, ow, dl, result>>

\* wg.Wait() and the return of failed
WgWait ==
    /\ par.pc = "loop"
    /\ Len(par.goroutines) = Len(par.indices)
    /\ par.wg = 0
    /\ par' = [par EXCEPT !.pc = "returned", !.returned = par.failed]
    /\ UNCHANGED <<key, media, pw, tok, impl, all, videos, isTerminal, pc, state, event,
                   rawMode, cursorHidden, drawn, line, stdin, ow, dl, result>>

\* the indices of toDownload: some videos of the channel, in rising order
RECURSIVE Ascending(_)
Ascending(S) ==
    IF S = {} THEN <<>>
    ELSE LET least == CHOOSE x \in S : \A y \in S : x <= y
         IN <<least>> \o Ascending(S \ {least})

RECURSIVE MaxBasename(_)
MaxBasename(indices) ==
    IF indices = <<>> THEN 0
    ELSE Max(BasenameLen(Head(indices)), MaxBasename(Tail(indices)))

\* downloadVideosParallel called by processDownloads
ParallelInit ==
    /\ SessionIdle
    /\ \E S \in SUBSET (0..(MaxParallel - 1)) :
          /\ S # {}
          /\ par = [NoParallel EXCEPT !.indices = Ascending(S), !.pc = "loop",
                                      !.maxFilenameWidth = MaxBasename(Ascending(S))]
    /\ IdleBut("par")

ParallelNext ==
    \/ Spawn
    \/ WgWait
    \/ \E g \in 1..Len(par.goroutines) :
          \/ GetVariants(g)
          \/ DownloadOne(g)
          \/ LockFailed(g)
          \/ AppendFailed(g)
          \/ WgDone(g)

ParallelSpec == ParallelInit /\ [][ParallelNext]_vars

\* io.Copy hands the next chunk to pw.Write, and stops on its error; the
\* bar is drawn when minUpdateGap has passed since it was drawn last
Write ==
    /\ pw.pc = "copying"
    /\ \E length \in 1..MaxChunk :
          /\ pw.written + length <= MaxWritten
          /\ \E under \in UnderlyingWrites(length), due \in BOOLEAN :
             LET err == WriteError(pw.package, under.err)
             IN pw' = [pw EXCEPT
                          !.written = @ + under.n,
                          !.displays = IF due THEN @ + 1 ELSE @,
                          !.last = [len |-> length, before |-> pw.written,
                                    under |-> under, n |-> under.n,
                                    err |-> err],
                          !.pc = IF err # NilErr THEN "failed" ELSE "copying",
                          !.err = IF err # NilErr
                                  THEN Wrap("errFailedToCopyData", err)
                                  ELSE NilErr]
    /\ UNCHANGED <<key, media, par, tok, impl, all, videos, isTerminal, pc, state,
                   event, rawMode, cursorHidden, drawn, line, stdin, ow, dl,
                   result>>

\* the source is at its end: io.Copy returns nil, the bar is drawn once more
CopyDone ==
    /\ pw.pc = "copying"
    /\ pw' = [pw EXCEPT !.pc = "done", !.err = NilErr, !.displays = @ + 1]
    /\ UNCHANGED <<key, media, par, tok, impl, all, videos, isTerminal, pc, state,
                   event, rawMode, cursorHidden, drawn, line, stdin, ow, dl,
                   result>>

\* ProgressBarWithRow or BarWithRow up to its io.Copy
WriterInit ==
    /\ SessionIdle
    /\ pw \in [package : WriterPackages, pc : {"copying"}, written : {0},
               displays : {0}, last : {NoWrite}, err : {NilErr}]
    /\ IdleBut("pw")

WriterNext == Write \/ CopyDone

WriterSpec == WriterInit /\ [][WriterNext]_vars

\* the state of the Manager after a call that did r
Called(op, in, r) ==
    tok' = [tok EXCEPT
               !.keyring = r.keyring,
               !.last = [op |-> op, before |-> tok.keyring, in |-> in,
                         confirms |-> r.confirms, inputs |-> r.inputs,
                         err |-> r.err]]

\* token set
Set ==
    /\ tok.version \in DeleteVersions
    /\ \E in \in TokenInputs : Called("Set", in, SetToken(tok.keyring, in))
    /\ UNCHANGED <<key, media, par, pw, impl, all, videos, isTerminal, pc, state,
                   event, rawMode, cursorHidden, drawn, line, stdin, ow, dl,
                   result>>

\* token delete
Delete ==
    /\ tok.version \in DeleteVersions
    /\ \E in \in TokenInputs :
          Called("Delete", in, DeleteToken(tok.version, tok.keyring, in))
    /\ UNCHANGED <<key, media, par, pw, impl, all, videos, isTerminal, pc, state,
                   event, rawMode, cursorHidden, drawn, line, stdin, ow, dl,
                   result>>

\* a keyring with or without a token, before any call of the Manager
TokenInit ==
    /\ SessionIdle
    /\ tok \in [version : DeleteVersions, keyring : {NoToken, "existing-token"},
                last : {NoCall}]
    /\ IdleBut("tok")

TokenNext == Set \/ Delete

TokenSpec == TokenInit /\ [][TokenNext]_vars

\* downloadChannel returns err, and Download what it makes of it
Finish(err) ==
    dl' = [dl EXCEPT !.pc = "done", !.channelErr = err,
                     !.err = IF err = NilErr THEN NilErr
                             ELSE channelError(dl.downloadType, err)]

\* Download up to the call of SelectVideos in downloadChannel
Download ==
    /\ dl.pc = "start"
    /\ \E verr \in downloadVideoErrs, metaOk \in BOOLEAN, listOk \in BOOLEAN :
       LET tryVideo == dl.downloadType \in {"videoType", "unknownType"}
           cerr == IF ~metaOk THEN Wrap("errFailedToGetChannelInfo", HttpErr)
                   ELSE IF ~listOk THEN Wrap("errFailedToGetChannelVideos", HttpErr)
                   ELSE NilErr
           tried == IF tryVideo THEN <<"video", "channel">> ELSE <<"channel">>
           failed == IF tryVideo THEN verr ELSE NilErr
       IN IF tryVideo /\ verr = NilErr
          THEN /\ dl' = [dl EXCEPT !.pc = "done", !.err = NilErr,
                                    !.attempts = <<"video">>]
               /\ UNCHANGED pc
          ELSE IF tryVideo /\ (\/ dl.downloadType = "videoType"
                                \/ Is(verr, "ErrFailedToCreateFile"))
          THEN /\ dl' = [dl EXCEPT !.pc = "done", !.attempts = <<"video">>,
                                    !.videoErr = verr,
                                    !.err = Wrap("errFailedToDownloadVideo", verr)]
               /\ UNCHANGED pc
          ELSE IF cerr # NilErr
          THEN /\ dl' = [dl EXCEPT !.pc = "done", !.attempts = tried,
                                    !.videoErr = failed, !.channelErr = cerr,
                                    !.err = channelError(dl.downloadType, cerr)]
               /\ UNCHANGED pc
          ELSE IF videos = 0
          THEN /\ dl' = [dl EXCEPT !.pc = "done", !.attempts = tried,
                                    !.videoErr = failed, !.err = NilErr]
               /\ UNCHANGED pc
          ELSE /\ dl' = [dl EXCEPT !.pc = "selecting", !.attempts = tried,
                                    !.videoErr = failed]
               /\ pc' = "call"
    /\ UNCHANGED <<units, impl, all, videos, isTerminal, state, event, rawMode,
                   cursorHidden, drawn, line, stdin, ow, result>>

\* downloadChannel from the return of SelectVideos to the folder
downloadChannel ==
    /\ dl.pc = "selecting"
    /\ pc = "returned"
    /\ IF result.err # NilErr
       THEN Finish(Wrap("errFailedToSelectVideos", result.err))
       ELSE IF nothingSelected(result.indices)
       THEN Finish(NilErr)
       ELSE \E mkdirOk \in BOOLEAN :
               IF mkdirOk
               THEN dl' = [dl EXCEPT !.pc = "preparing", !.folder = TRUE]
               ELSE Finish(Wrap("errFailedToCreateChannelFolder",
                                Wrap("errFailedToCreateFolder", OsErr)))
    /\ UNCHANGED <<units, impl, all, videos, isTerminal, pc, state, event, rawMode,
                   cursorHidden, drawn, line, stdin, ow, result>>

\* one iteration of the loop of prepareDownloads
prepareDownloads ==
    /\ dl.pc = "preparing"
    /\ dl.next <= Len(result.indices.elems)
    /\ \E variants \in {"err", "none", "ok"}, exists \in BOOLEAN,
          typed \in {<<"y">>, <<>>} :
       LET idx == result.indices.elems[dl.next]
           skipped == part000_OverwriteVideoIfExists(exists, typed, dl.config).value
       IN dl' = [dl EXCEPT
                    !.next = @ + 1,
                    !.requested = @ \cup {idx},
                    !.failed = IF variants # "ok" THEN Append(@, idx) ELSE @,
                    !.toDownload = IF variants = "ok" /\ ~skipped
                                   THEN Append(@, idx) ELSE @]
    /\ UNCHANGED <<units, impl, all, videos, isTerminal, pc, state, event, rawMode,
                   cursorHidden, drawn, line, stdin, ow, result>>

\* the orders in which the members of S may be appended
Orders(S) ==
    {sq \in [1..Cardinality(S) -> S] :
        \A i, j \in 1..Cardinality(S) : i # j => sq[i] # sq[j]}

\* the rest of downloadSelectedVideos: processDownloads, printResults
processDownloads ==
    /\ dl.pc = "preparing"
    /\ dl.next > Len(result.indices.elems)
    /\ \E bad \in SUBSET Range(dl.toDownload) :
       \E order \in IF impl = "ui"
                     THEN {SelectSeq(dl.toDownload, LAMBDA idx : idx \in bad)}
                     ELSE Orders(bad) :
          LET failed == dl.failed \o order
          IN dl' = [dl EXCEPT
                       !.pc = "done",
                       !.err = NilErr,
                       !.streamed = Range(dl.toDownload),
                       !.completed = Range(dl.toDownload) \ bad,
                       !.failed = failed,
                       !.summary = [successful |-> Len(dl.toDownload) - Len(failed),
                                    selected |-> Len(result.indices.elems),
                                    failed |-> failed]]
    /\ UNCHANGED <<units, impl, all, videos, isTerminal, pc, state, event, rawMode,
                   cursorHidden, drawn, line, stdin, ow, result>>

\* Download of a video or channel, on a terminal
DownloadInit ==
    /\ impl \in Impls
    /\ all \in BOOLEAN
    /\ videos \in 0..MaxItems
    /\ isTerminal = TRUE
    /\ pc = "idle"
    /\ state = NoState
    /\ event = NoEvent
    /\ rawMode = FALSE
    /\ cursorHidden = FALSE
    /\ drawn = FALSE
    /\ line = <<>>
    /\ stdin = <<>>
    /\ ow = NoOverwrite
    /\ dl \in {[NoDownload EXCEPT !.pc = "start", !.downloadType = t, !.config = c] :
                   t \in mediaTypes, c \in Configs}
    /\ result = NoResult
    /\ IdleBut("")

DownloadNext ==
    \/ Download
    \/ SelectVideos
    \/ runEventLoop
    \/ part006_runEventLoop
    \/ ui_SelectVideos
    \/ ui_runEventLoop
    \/ downloadChannel
    \/ prepareDownloads
    \/ processDownloads

DownloadSpec == DownloadInit /\ [][DownloadNext]_vars

\* ------------------------------------------ properties of the selector
Left == pc \in {"returned", "exited"}

Elems(sl) == {sl.elems[i] : i \in 1..Len(sl.elems)}

StrictlyAscending(sq) == \A i \in 1..(Len(sq) - 1) : sq[i] < sq[i + 1]

\* the step is an iteration of runEventLoop that read the key k
Pressed(k) == pc = "loop" /\ event'.Key = k

\* C1: once control has left the selector (return or process exit), the
\* terminal is no longer in raw mode and the cursor is no longer hidden.
C1_TerminalReleased == Left => (~rawMode /\ ~cursorHidden)

\* C2: after a Ctrl-C the selector has returned to its caller with the
\* user-abort error, which is neither the key-read nor the setup error, and
\* with a nil index list.
C2_CtrlCReturnsAbort ==
    event.Key = "KeyCtrlC" =>
        /\ pc = "returned"
        /\ Is(result.err, "ErrUserAbort")
        /\ ~Is(result.err, "errFailedToReadKey")
        /\ ~Is(result.err, "ErrFailedToSetRawMode")
        /\ ~Is(result.err, "errFailedToSetRawMode")
        /\ result.indices = NilSlice

\* C3: Arrow-Up/k moves the cursor to (cursor - 1 + n) mod n and
\* Arrow-Down/j to (cursor + 1) mod n, for every cursor position.
C3_NavigationWraps ==
    [][/\ Pressed("KeyArrowUp") =>
            /\ pc' = "loop"
            /\ state'.currentIndex = (state.currentIndex - 1 + videos) % videos
       /\ Pressed("KeyArrowDown") =>
            /\ pc' = "loop"
            /\ state'.currentIndex = (state.currentIndex + 1) % videos]_vars

\* C4: Space with the cursor at c flips selected[c], leaves every other flag
\* unchanged and moves the cursor to (c + 1) mod n.
C4_SpaceToggles ==
    [][Pressed("KeySpace") =>
            LET c == state.currentIndex
            IN /\ pc' = "loop"
               /\ state'.selected[c] = ~state.selected[c]
               /\ \A i \in (0..(videos - 1)) \ {c} :
                      state'.selected[i] = state.selected[i]
               /\ state'.currentIndex = (c + 1) % videos]_vars

\* the last item was toggled off and the cursor wrapped to the first one
C4_Witness ==
    /\ pc = "loop"
    /\ event.Key = "KeySpace"
    /\ videos >= 2
    /\ state.currentIndex = 0
    /\ ~state.selected[videos - 1]
    /\ state.selected[0]

\* C5: Enter returns a nil error and the strictly ascending list of exactly
\* the indices whose flag is set when Enter is read; with every flag cleared
\* that is the empty list.
C5_EnterReturnsSelected ==
    [][Pressed("KeyEnter") =>
            /\ pc' = "returned"
            /\ result'.err = NilErr
            /\ ~result'.indices.nil
            /\ StrictlyAscending(result'.indices.elems)
            /\ Elems(result'.indices) =
                   {i \in 0..(videos - 1) : state.selected[i]}]_vars

\* Enter after every item of a list of two or more was toggled off
C5_Witness ==
    /\ pc = "returned"
    /\ event.Key = "KeyEnter"
    /\ videos >= 2
    /\ result = [indices |-> Slice(<<>>), err |-> NilErr]

\* C6: a session on a non-empty list starts with the cursor on index 0 and
\* every flag set, and Enter as the first key returns 0..n-1.
C6_StartsAllSelected ==
    [][/\ (pc = "call" /\ pc' = "loop") =>
            /\ videos >= 1
            /\ state'.currentIndex = 0
            /\ \A i \in 0..(videos - 1) : state'.selected[i]
       /\ (Pressed("KeyEnter") /\ event = NoEvent) =>
            result' = [indices |-> Slice(AllIndices(videos)), err |-> NilErr]]_vars

\* Enter returned every index of a list of two or more, cursor still on 0
C6_Witness ==
    /\ pc = "returned"
    /\ event.Key = "KeyEnter"
    /\ videos >= 2
    /\ ~all
    /\ state.currentIndex = 0
    /\ result.indices = Slice(AllIndices(videos))

\* ------------------------------------ properties of the text selection
\* the line went through parseSelection
Parsed == pc = "returned" /\ line # <<>>

Sep(c) == c \in {",", " "}

\* where the tokens of l start: after a separator or at the beginning
TokenStarts(l) ==
    {i \in 1..Len(l) : ~Sep(l[i]) /\ (i = 1 \/ Sep(l[i - 1]))}

TokenEnd(l, i) ==
    CHOOSE j \in i..Len(l) :
        /\ \A k \in i..j : ~Sep(l[k])
        /\ (j = Len(l) \/ Sep(l[j + 1]))

\* the token that starts at i, without surrounding whitespace
TokenAt(l, i) == TrimSpace(SubSeq(l, i, TokenEnd(l, i)))

\* the starts of the tokens that are more than whitespace
RealStarts(l) == {i \in TokenStarts(l) : TokenAt(l, i) # <<>>}

Min(S) == CHOOSE x \in S : \A y \in S : x <= y

HyphenCount(t) == Cardinality({i \in 1..Len(t) : t[i] = "-"})

Before(t) == SubSeq(t, 1, (CHOOSE i \in 1..Len(t) : t[i] = "-") - 1)

After(t) == SubSeq(t, (CHOOSE i \in 1..Len(t) : t[i] = "-") + 1, Len(t))

IsNumeral(t) == t # <<>> /\ \A i \in 1..Len(t) : t[i] \in Digits

IsNumeralRange(t) ==
    HyphenCount(t) = 1 /\ IsNumeral(Before(t)) /\ IsNumeral(After(t))

Num(t) == Atoi(TrimSpace(t)).val

\* the indices a valid token stands for
TokenIndices(t) ==
    IF Contains(t, "-")
    THEN (Num(Before(t)) - 1)..(Num(After(t)) - 1)
    ELSE {Num(t) - 1}

\* the error of a line that holds the token t and nothing else
TokenErr(t) == parseSelection(t, videos).err

\* C7: a successful parse returns a strictly ascending list whose elements
\* are exactly the union of the indices its tokens stand for; repeated
\* numbers and overlapping ranges are no error.
C7_SortedUnion ==
    (Parsed /\ result.err = NilErr) =>
        /\ ~result.indices.nil
        /\ StrictlyAscending(result.indices.elems)
        /\ Elems(result.indices) =
               UNION {TokenIndices(TokenAt(line, i)) : i \in RealStarts(line)}

\* "2,1-2" on two items gives [0, 1]
C7_Witness ==
    /\ Parsed
    /\ videos = 2
    /\ line = <<"2", ",", "1", "-", "2">>
    /\ result = [indices |-> Slice(<<0, 1>>), err |-> NilErr]

\* C8: a line with an invalid token yields a nil list and the error of its
\* leftmost invalid token.
C8_LeftmostError ==
    LET bad == {i \in RealStarts(line) : TokenErr(TokenAt(line, i)) # NilErr}
    IN (Parsed /\ bad # {}) =>
           /\ result.indices = NilSlice
           /\ result.err # NilErr
           /\ result.err = TokenErr(TokenAt(line, Min(bad)))

\* "1,x,0": the invalid number is reported, not the 0 that is out of range
C8_Witness ==
    /\ Parsed
    /\ line = <<"1", ",", "x", ",", "0">>
    /\ result = [indices |-> NilSlice, err |-> {"errInvalidNumber"}]

\* C9: a first token that is a number n is rejected with number-out-of-range
\* unless 1 <= n <= itemCount (n = 0 included), a first token a-b of two
\* numbers with invalid-range unless 1 <= a <= b <= itemCount; a token that
\* passes and stands alone on the line yields n-1 resp. a-1..b-1; no
\* returned index lies outside 0..itemCount-1.
C9_RangeChecks ==
    Parsed =>
        LET t     == TokenAt(line, Min(RealStarts(line)))
            alone == Cardinality(RealStarts(line)) = 1
        IN /\ (RealStarts(line) # {} /\ IsNumeral(t)) =>
                IF 1 <= Num(t) /\ Num(t) <= videos
                THEN alone => result = [indices |-> Slice(<<Num(t) - 1>>),
                                        err |-> NilErr]
                ELSE result = [indices |-> NilSlice, err |-> {"errNumberOutOfRange"}]
           /\ (RealStarts(line) # {} /\ IsNumeralRange(t)) =>
                IF 1 <= Num(Before(t)) /\ Num(Before(t)) <= Num(After(t))
                      /\ Num(After(t)) <= videos
                THEN alone => /\ result.err = NilErr
                              /\ Elems(result.indices) =
                                     (Num(Before(t)) - 1)..(Num(After(t)) - 1)
                ELSE result = [indices |-> NilSlice, err |-> {"errInvalidRange"}]
           /\ result.err = NilErr =>
                \A x \in Elems(result.indices) : 0 <= x /\ x <= videos - 1

\* "0" is rejected as out of range
C9_Witness ==
    /\ Parsed
    /\ line = <<"0">>
    /\ result = [indices |-> NilSlice, err |-> {"errNumberOutOfRange"}]

\* C10 as stated: a first token with a hyphen that does not split on '-'
\* into exactly two non-empty parts is rejected with invalid-range-format.
C10_HyphenTokenBadFormat ==
    (Parsed /\ RealStarts(line) # {}) =>
        LET t == TokenAt(line, Min(RealStarts(line)))
        IN (/\ Contains(t, "-")
            /\ ~(HyphenCount(t) = 1 /\ Before(t) # <<>> /\ After(t) # <<>>)) =>
               result = [indices |-> NilSlice, err |-> {"errInvalidRangeFormat"}]

\* C10 amended: a first token with two or more hyphens is rejected with
\* invalid-range-format; with exactly one hyphen and nothing before it, it is
\* rejected with invalid-start-number; with exactly one hyphen, a number
\* before it and nothing after it, with invalid-end-number.
C10_HyphenTokenErrors ==
    (Parsed /\ RealStarts(line) # {}) =>
        LET t == TokenAt(line, Min(RealStarts(line)))
        IN /\ HyphenCount(t) >= 2 =>
                result = [indices |-> NilSlice, err |-> {"errInvalidRangeFormat"}]
           /\ (HyphenCount(t) = 1 /\ TrimSpace(Before(t)) = <<>>) =>
                result = [indices |-> NilSlice, err |-> {"errInvalidStartNumber"}]
           /\ (HyphenCount(t) = 1 /\ IsNumeral(Before(t))
                  /\ TrimSpace(After(t)) = <<>>) =>
                result = [indices |-> NilSlice, err |-> {"errInvalidEndNumber"}]

\* "1-2-1" is rejected for its format
C10_Witness ==
    /\ Parsed
    /\ line = <<"1", "-", "2", "-", "1">>
    /\ result = [indices |-> NilSlice, err |-> {"errInvalidRangeFormat"}]

\* every token before the one that starts at i is accepted
Reached(l, i) ==
    \A j \in RealStarts(l) : j < i => TokenErr(TokenAt(l, j)) = NilErr

NonNumeric(t) == ~IsNumeral(TrimSpace(t))

RejectedWith(sentinel) == result = [indices |-> NilSlice, err |-> {sentinel}]

\* C11: a token with exactly one hyphen and an empty or non-numeric part
\* before it is rejected with invalid-start-number; so "1 - 3" and a
\* negative number fail with invalid-start-number.
C11_BadStartNumber ==
    Parsed =>
        /\ \A i \in RealStarts(line) :
              LET t == TokenAt(line, i)
              IN (Reached(line, i) /\ HyphenCount(t) = 1 /\ NonNumeric(Before(t)))
                     => RejectedWith("errInvalidStartNumber")
        /\ line = <<"1", " ", "-", " ", "2">> => RejectedWith("errInvalidStartNumber")
        /\ line = <<"-", "1">> => RejectedWith("errInvalidStartNumber")

\* "1 - 2" is rejected for the start number of its token "-"
C11_Witness ==
    /\ Parsed
    /\ line = <<"1", " ", "-", " ", "2">>
    /\ RejectedWith("errInvalidStartNumber")

\* C12: a non-numeric token without hyphen is rejected with invalid-number;
\* a token of two parts with a non-numeric start with invalid-start-number,
\* also when the end is non-numeric too; with a numeric start and a
\* non-numeric end with invalid-end-number.
C12_NonNumericErrors ==
    Parsed =>
        \A i \in RealStarts(line) :
            LET t == TokenAt(line, i)
            IN Reached(line, i) =>
                 /\ (HyphenCount(t) = 0 /\ NonNumeric(t))
                        => RejectedWith("errInvalidNumber")
                 /\ (HyphenCount(t) = 1 /\ NonNumeric(Before(t)))
                        => RejectedWith("errInvalidStartNumber")
                 /\ (HyphenCount(t) = 1 /\ ~NonNumeric(Before(t))
                         /\ NonNumeric(After(t)))
                        => RejectedWith("errInvalidEndNumber")

\* "x-x": both endpoints are non-numeric and the start is reported
C12_Witness ==
    /\ Parsed
    /\ line = <<"x", "-", "x">>
    /\ RejectedWith("errInvalidStartNumber")

\* C13: a line without any token yields the no-valid-selections error and a
\* nil list, and a successful parse returns at least one index.
C13_NoSelections ==
    Parsed =>
        /\ RealStarts(line) = {} => RejectedWith("errNoValidSelectionsFound")
        /\ result.err = NilErr =>
              (~result.indices.nil /\ Len(result.indices.elems) >= 1)

\* ",,," is rejected
C13_Witness ==
    /\ Parsed
    /\ line = <<",", ",", ",">>
    /\ RejectedWith("errNoValidSelectionsFound")

\* a comma or any whitespace character
WsSep(c) == c = "," \/ IsSpace(c)

\* the tokens of l when commas and all whitespace separate
WsTokens(l) ==
    {SubSeq(l, p[1], p[2]) :
        p \in {q \in (1..Len(l)) \X (1..Len(l)) :
                  /\ q[1] <= q[2]
                  /\ \A k \in q[1]..q[2] : ~WsSep(l[k])
                  /\ (q[1] = 1 \/ WsSep(l[q[1] - 1]))
                  /\ (q[2] = Len(l) \/ WsSep(l[q[2] + 1]))}}

InRange(t) == IsNumeral(t) /\ 1 <= Num(t) /\ Num(t) <= videos

\* C14 as stated: commas and every whitespace character separate tokens, so
\* a line whose tokens under that reading are all numbers within range
\* selects exactly those numbers.
C14_AnyWhitespaceSeparates ==
    (Parsed /\ WsTokens(line) # {} /\ \A t \in WsTokens(line) : InRange(t)) =>
        /\ result.err = NilErr
        /\ Elems(result.indices) = {Num(t) - 1 : t \in WsTokens(line)}

\* C14 amended: commas and space characters, in any mixture and number,
\* separate tokens: a line whose tokens under that reading are all numbers
\* within range selects exactly those numbers; a tab between two digits
\* does not separate them and the line is rejected.
C14_CommaAndSpaceSeparate ==
    Parsed =>
        /\ (/\ RealStarts(line) # {}
            /\ \A i \in RealStarts(line) : InRange(TokenAt(line, i))) =>
               /\ result.err = NilErr
               /\ Elems(result.indices) =
                      {Num(TokenAt(line, i)) - 1 : i \in RealStarts(line)}
        /\ (\E i \in 2..(Len(line) - 1) :
               line[i] = "\t" /\ line[i - 1] \in Digits /\ line[i + 1] \in Digits)
               => result.err # NilErr

\* "1, 2": a comma and a space together separate two tokens
C14_Witness ==
    /\ Parsed
    /\ line = <<"1", ",", " ", "2">>
    /\ result = [indices |-> Slice(<<0, 1>>), err |-> NilErr]

\* C19: when raw mode cannot be enabled the selector returns that error
\* and a nil list without hiding the cursor, drawing or reading a key; when
\* reading a key fails the loop ends and the read error, which is not the
\* user-abort error, is returned with a nil list whatever was selected.
C19_IoFailures ==
    [][/\ (pc = "call" /\ pc' = "returned" /\ result'.err # NilErr /\ isTerminal) =>
              /\ result'.indices = NilSlice
              /\ Is(result'.err, "os")
              /\ \/ Is(result'.err, "ErrFailedToSetRawMode")
                 \/ Is(result'.err, "errFailedToSetRawMode")
              /\ UNCHANGED <<rawMode, cursorHidden, drawn, event, state>>
       /\ (pc = "loop" /\ Is(result'.err, "os")) =>
              /\ pc' = "returned"
              /\ result'.indices = NilSlice
              /\ Is(result'.err, "errFailedToReadKey")
              /\ ~Is(result'.err, "ErrUserAbort")
              /\ ~rawMode' /\ ~cursorHidden'
      ]_vars

\* a read failed after an item had been deselected
C19_Witness ==
    /\ pc = "returned"
    /\ impl = "input"
    /\ Is(result.err, "errFailedToReadKey")
    /\ result.indices = NilSlice
    /\ state # NoState
    /\ \E i \in DOMAIN state.selected : ~state.selected[i]

\* the line waiting on the pipe, as the prompt would return it
PipedInput == TrimSpace(Input(ReadString(stdin)))

AllSelected == [indices |-> Slice(AllIndices(videos)), err |-> NilErr]

\* C15: SelectVideos returns every index and a nil error when the all flag
\* is set, when the list is empty, and when the line piped in is empty or
\* blank; in the first two cases it changes no terminal mode, draws nothing
\* and reads nothing, in the third the line is not parsed.
C15_SelectAll ==
    [][(pc = "call" /\ pc' # "call") =>
          /\ (all \/ videos = 0) =>
                 /\ pc' = "returned"
                 /\ result' = AllSelected
                 /\ UNCHANGED <<rawMode, cursorHidden, drawn, event, line, stdin>>
          /\ (~all /\ videos > 0 /\ ~isTerminal /\ PipedInput = <<>>) =>
                 /\ pc' = "returned"
                 /\ result' = AllSelected
                 /\ result' # parseSelection(PipedInput, videos)
      ]_vars

RawModeFailed(err) ==
    Is(err, "ErrFailedToSetRawMode") \/ Is(err, "errFailedToSetRawMode")

\* C16: without the all flag and with a non-empty list SelectVideos starts
\* the raw-mode selector exactly when stdin is a terminal; otherwise it
\* leaves the terminal mode alone, draws the list, reads one line and
\* returns what the line selects.
C16_RawModeIffTerminal ==
    [][(pc = "call" /\ pc' # "call" /\ ~all /\ videos > 0) =>
          IF isTerminal
          THEN \/ pc' = "loop" /\ rawMode'
               \/ pc' = "returned" /\ RawModeFailed(result'.err)
          ELSE /\ pc' = "returned"
               /\ ~RawModeFailed(result'.err)
               /\ UNCHANGED <<rawMode, cursorHidden>>
               /\ drawn'
               /\ line' = PipedInput
               /\ stdin' = <<>>
               /\ result' = IF PipedInput = <<>> THEN AllSelected
                            ELSE parseSelection(PipedInput, videos)
      ]_vars

\* the answers that mean yes
Yes(typed) ==
    TrimSpace(typed) \in {<<"y">>, <<"Y">>, <<"y", "e", "s">>, <<"Y", "e", "s">>}

\* C20: with Force the download proceeds without a prompt, whether or not
\* the file exists and whatever Skip says; without Force, a file that exists
\* is skipped without a prompt when Skip is set; a file that does not
\* exist is written without a prompt; the user is asked only when both
\* flags are unset and the file exists, and then the file is overwritten
\* only on a yes.
C20_OverwriteDecision ==
    ow.called =>
        /\ ow.config.Force => (ow.value /\ ~ow.prompted)
        /\ (~ow.config.Force /\ ow.config.Skip /\ ow.exists)
               => (~ow.value /\ ~ow.prompted)
        /\ ~ow.exists => (ow.value /\ ~ow.prompted)
        /\ ow.prompted <=> (~ow.config.Force /\ ~ow.config.Skip /\ ow.exists)
        /\ ow.prompted => (ow.value <=> Yes(ow.typed))

\* Force and Skip are both set, the file exists and is overwritten
C20_Witness ==
    /\ ow.called
    /\ ow.config.Force /\ ow.config.Skip /\ ow.exists
    /\ ow.value /\ ~ow.prompted

\* Download has returned after the selector returned no index and no error
EmptySelection ==
    /\ dl.pc = "done"
    /\ pc = "returned"
    /\ result.err = NilErr
    /\ result.indices.elems = <<>>

\* C17: when the selection returns an empty list and no error the channel
\* download returns nil and has created no channel folder, requested no
\* variants and downloaded no stream.
C17_NothingSelected ==
    EmptySelection =>
        /\ dl.err = NilErr
        /\ ~dl.folder
        /\ dl.requested = {}
        /\ dl.streamed = {}
        /\ dl.toDownload = <<>> /\ dl.failed = <<>>

\* two videos were offered, both deselected, and Download returned nil
C17_Witness ==
    /\ EmptySelection
    /\ videos = 2
    /\ ~all
    /\ dl.err = NilErr
    /\ ~dl.folder

\* C18: after a Ctrl-C during the selection of a channel's videos the
\* error Download returns satisfies errors.Is(err, ErrUserAbort), for a
\* channel URL and for a bare ID.
C18_AbortPropagates ==
    (dl.pc = "done" /\ pc = "returned" /\ event.Key = "KeyCtrlC") =>
        Is(dl.err, "ErrUserAbort")

\* C24: while a session with n >= 1 items runs, 0 <= cursor < n and there
\* are n selection flags.
C24_CursorInBounds ==
    (pc = "loop" /\ videos >= 1) =>
        /\ 0 <= state.currentIndex
        /\ state.currentIndex < videos
        /\ DOMAIN state.selected = 0..(videos - 1)
        /\ state.videos = videos

\* the cursor is on the last of three items and an item is deselected
C24_Witness ==
    /\ pc = "loop"
    /\ videos = 3
    /\ state.currentIndex = 2
    /\ \E i \in DOMAIN state.selected : ~state.selected[i]

\* the keys that are none of Up/k, Down/j, Space, Enter, Ctrl-C
OtherKey(ev) ==
    ev.Key \notin {"KeyArrowUp", "KeyArrowDown", "KeySpace", "KeyEnter", "KeyCtrlC"}

\* C25: a key that is none of Up/k, Down/j, Space, Enter or Ctrl-C leaves
\* the cursor and every selection flag as they are and the selector active.
C25_OtherKeysNoOp ==
    [][(pc = "loop" /\ ~Is(result'.err, "errFailedToReadKey") /\ OtherKey(event')) =>
          /\ pc' = "loop"
          /\ state'.currentIndex = state.currentIndex
          /\ state'.selected = state.selected
          /\ rawMode' /\ cursorHidden'
      ]_vars

\* a printable character was read while an item was deselected
C25_Witness ==
    /\ pc = "loop"
    /\ event.Key = "KeyChar"
    /\ \E i \in DOMAIN state.selected : ~state.selected[i]

\* the bytes that print
Printable(b) == 32 <= b /\ b <= 126

\* C26: ReadKey turns one read into one event: ESC [ A and k are ArrowUp,
\* ESC [ B and j ArrowDown, the space Space, CR and LF Enter, 0x03 Ctrl-C;
\* any other input that starts with ESC, a byte that does not print and a
\* read of no byte are Unknown without error; any other byte that prints is
\* a character event; a failed read is an error.
C26_ReadKeyDecodes ==
    key.called =>
        LET buf == key.read.buf
            k   == key.event.Key
        IN IF key.read.err # NilErr THEN key.err # NilErr
           ELSE /\ key.err = NilErr
                /\ buf = <<>> => k = "KeyUnknown"
                /\ buf = <<27, 91, 65>> => k = "KeyArrowUp"
                /\ buf = <<27, 91, 66>> => k = "KeyArrowDown"
                /\ (buf # <<>> /\ buf[1] = 27
                      /\ buf \notin {<<27, 91, 65>>, <<27, 91, 66>>}) => k = "KeyUnknown"
                /\ (buf # <<>> /\ buf[1] = 107) => k = "KeyArrowUp"
                /\ (buf # <<>> /\ buf[1] = 106) => k = "KeyArrowDown"
                /\ (buf # <<>> /\ buf[1] = 32) => k = "KeySpace"
                /\ (buf # <<>> /\ buf[1] \in {13, 10}) => k = "KeyEnter"
                /\ (buf # <<>> /\ buf[1] = 3) => k = "KeyCtrlC"
                /\ (buf # <<>> /\ ~Printable(buf[1]) /\ buf[1] \notin {3, 10, 13, 27})
                      => k = "KeyUnknown"
                /\ (buf # <<>> /\ Printable(buf[1]) /\ buf[1] \notin {32, 106, 107})
                      => key.event = Ev("KeyChar", buf[1])

\* the byte k was read and decoded as ArrowUp
C26_Witness ==
    /\ key.called
    /\ key.read.buf = <<107>>
    /\ key.event.Key = "KeyArrowUp"
    /\ key.err = NilErr

\* a download of the given kind failed
Failed27(err) == err # NilErr

\* C27: for a bare identifier Download tries the video first and the
\* channel only when the video failed with an error that is not a failure
\* to create the file; for a video URL it never tries the channel and for a
\* channel URL never the video; for a bare identifier it returns nil as soon
\* as one attempt succeeds and the invalid-ID error when both fail.
C27_AttemptOrder ==
    dl.pc \in {"selecting", "preparing", "done"} =>
        /\ dl.downloadType = "videoType" => dl.attempts = <<"video">>
        /\ dl.downloadType = "channelType" => dl.attempts = <<"channel">>
        /\ dl.downloadType = "unknownType" =>
              /\ dl.attempts \in {<<"video">>, <<"video", "channel">>}
              /\ dl.attempts = <<"video", "channel">> <=>
                    (Failed27(dl.videoErr) /\ ~Is(dl.videoErr, "ErrFailedToCreateFile"))
              /\ dl.pc = "done" =>
                    /\ ~Failed27(dl.videoErr) => dl.err = NilErr
                    /\ (dl.attempts = <<"video", "channel">> /\ ~Failed27(dl.channelErr))
                           => dl.err = NilErr
                    /\ (Failed27(dl.videoErr) /\ Failed27(dl.channelErr))
                           => dl.err = {"errInvalidID"}

\* a bare identifier that is neither a video nor a channel
C27_Witness ==
    /\ dl.pc = "done"
    /\ dl.downloadType = "unknownType"
    /\ dl.attempts = <<"video", "channel">>
    /\ Is(dl.videoErr, "errFailedToGetVideoInfo")
    /\ Is(dl.channelErr, "errFailedToGetChannelInfo")
    /\ dl.err = {"errInvalidID"}

\* C28: the summary after a channel download reports as successful the
\* number of selected videos whose download completed without error, and
\* that number is between 0 and the number of selected videos.
C28_SummaryCounts ==
    dl.summary # NoSummary =>
        /\ dl.summary.successful = Cardinality(dl.completed)
        /\ 0 <= dl.summary.successful
        /\ dl.summary.successful <= dl.summary.selected

\* the input without the white space around it
Trimmed == TrimSpace(media.input)

\* what follows the first n pieces of s
DropFirst(s, n) == SubSeq(s, n + 1, Len(s))

\* C23: extractIDAndType trims the input and then classifies it: without
\* the base URL in front it is (input, unknown, nil); the base URL followed
\* by "videos/" and an id is (id, video, nil), by "channels/" and an id
\* (id, channel, nil); any other input that starts with the base URL is
\* (remainder, unknown, invalid-URL error), and Download then fails with
\* the invalid-URL error before it makes any request.
C23_ExtractClassifies ==
    media.pc \in {"extracted", "requested", "done"} =>
        LET r == media.extracted
            rest == DropFirst(Trimmed, Len(baseURL))
        IN /\ ~HasPrefix(Trimmed, baseURL) =>
                 r = [id |-> Trimmed, type |-> "unknownType", err |-> NilErr]
           /\ HasPrefix(Trimmed, baseURL \o videoPrefix) =>
                 r = [id |-> DropFirst(Trimmed, Len(baseURL \o videoPrefix)),
                      type |-> "videoType", err |-> NilErr]
           /\ HasPrefix(Trimmed, baseURL \o channelPrefix) =>
                 r = [id |-> DropFirst(Trimmed, Len(baseURL \o channelPrefix)),
                      type |-> "channelType", err |-> NilErr]
           /\ (/\ HasPrefix(Trimmed, baseURL)
               /\ ~HasPrefix(rest, videoPrefix)
               /\ ~HasPrefix(rest, channelPrefix)) =>
                 /\ r = [id |-> rest, type |-> "unknownType",
                         err |-> {"errInvalidURL"}]
                 /\ media.pc = "done"
                 /\ Is(media.err, "errInvalidURL")
                 /\ media.requests = 0
           /\ media.requests > 0 => r.err = NilErr

\* a channel URL with white space in front, and a URL of neither kind
C23_Witness ==
    \/ /\ media.pc = "requested"
       /\ media.input = <<" ">> \o baseURL \o channelPrefix
       /\ media.extracted.type = "channelType"
    \/ /\ media.pc = "done"
       /\ media.input = baseURL \o <<"1", "/">>
       /\ media.extracted.id = <<"1", "/">>

\* how often x occurs in the sequence sq
Occurrences(sq, x) == Cardinality({k \in DOMAIN sq : sq[k] = x})

\* C29: downloadVideosParallel returns only after every goroutine has
\* finished; every index handed in is processed by exactly one goroutine,
\* each goroutine has a progress row of its own in 1..numVideos, namely
\* numVideos - i; and the list returned holds the failed videos, each once,
\* and no other.
C29_ParallelDownloads ==
    LET numVideos == Len(par.indices)
        gs == par.goroutines
    IN /\ \A g \in DOMAIN gs :
             /\ gs[g].rowIndex \in 1..numVideos
             /\ gs[g].rowIndex = numVideos - (g - 1)
             /\ \A h \in DOMAIN gs : h # g => gs[h].rowIndex # gs[g].rowIndex
       /\ par.pc = "returned" =>
             /\ \A g \in DOMAIN gs : gs[g].pc = "done"
             /\ \A k \in DOMAIN par.indices :
                   Cardinality({g \in DOMAIN gs :
                                   gs[g].videoIdx = par.indices[k]}) = 1
             /\ \A g \in DOMAIN gs :
                   Occurrences(par.returned, gs[g].videoIdx)
                       = IF gs[g].failed THEN 1 ELSE 0
             /\ Len(par.returned) = Cardinality({g \in DOMAIN gs : gs[g].failed})

\* three downloads of which the last failed before the first
C29_Witness ==
    /\ par.pc = "returned"
    /\ Len(par.indices) = 3
    /\ par.returned = <<par.indices[3], par.indices[1]>>
    /\ ~par.goroutines[2].failed

\* C30: Write of the progress writer returns an error exactly when the
\* writer underneath did; on success it returns the byte count of the writer
\* underneath with a nil error, and it adds that count to the bytes written.
C30_WriteReports ==
    pw.last # NoWrite =>
        /\ pw.last.err # NilErr <=> pw.last.under.err # NilErr
        /\ pw.last.under.err = NilErr =>
              /\ pw.last.n = pw.last.under.n
              /\ pw.last.err = NilErr
        /\ pw.written = pw.last.before + pw.last.under.n

\* C21: token delete removes the stored token without asking for
\* confirmation: on a keyring that holds a token Delete reads no
\* confirmation, and whenever it returns nil the token is stored no longer.
C21_DeleteWithoutConfirmation ==
    (tok.last.op = "Delete" /\ tok.last.before # NoToken) =>
        /\ tok.last.confirms = 0
        /\ tok.last.err = NilErr => tok.keyring = NoToken

\* the typed token was refused by the API or the API was not reached
ValidationFailed == tok.last.in.status # "200"

====
